---- MODULE Spec2Model ----
(***************************************************************************)
(* Model of rapina's response cache (rapina/src/cache.rs): the in-memory   *)
(* backend (InMemoryCache), the cache-key functions and the cache          *)
(* middleware (CacheMiddleware::handle); of the router                     *)
(* (rapina/src/router.rs); of the external-store backend                   *)
(* (rapina/src/cache_redis.rs); and of pagination                          *)
(* (rapina/src/pagination.rs).                                             *)
(*                                                                         *)
(* Strings whose characters the code inspects (cache keys, paths, query    *)
(* strings, header values) are sequences of one-character strings.         *)
(* Instants are natural numbers; Instant::now() is non-decreasing, so two  *)
(* consecutive calls may read the same value.                              *)
(***************************************************************************)
EXTENDS Integers, Sequences, FiniteSets, TLC

VARIABLES
    entries,        \* InMemoryCache.entries: key -> CacheEntry
    op_count,       \* InMemoryCache.op_count
    max_entries,    \* InMemoryCache.max_entries
    now,            \* the value Instant::now() returns
    last,           \* the last backend call and what it returned
    watch,          \* one earlier set call, followed until its entry is
                    \* overwritten, invalidated or evicted
    order,          \* the keys set so far, while every call was a set of
                    \* a new key
    mw,             \* the last request the middleware served
    handler_calls,  \* how often the rest of the chain was invoked
    kpath, kquery, kkey,    \* build_cache_key's inputs and result
    routes,         \* Router.routes: (method, path) -> handler
    dispatch,       \* the last request Router::handle served
    procs,          \* the concurrent backend calls: where each one is
    applied,        \* whose write of the contended key was applied last
    store,          \* the external store: full key -> value and expiry
    futs,           \* the futures of CacheMiddleware::handle over RedisCache
    ws,             \* the threads that call the backend one call after another
    sweeps,         \* the periodic sweeps run: the count read, the count then
    overlap,        \* whether two calls of the backend ever overlapped
    pg,             \* the pagination request: its inputs and its result
    twin            \* a second InMemoryCache, given the same calls but the gets

gvars == <<last, watch, order>>
mvars == <<mw, handler_calls>>
kvars == <<kpath, kquery, kkey>>
rvars == <<routes, dispatch>>
cvars == <<procs, applied>>
avars == <<store, futs>>
svars == <<ws, sweeps, overlap>>
xvars == <<rvars, cvars, avars, svars, pg, twin>>
vars == <<entries, op_count, max_entries, now, last, watch, order,
          mw, handler_calls, kpath, kquery, kkey, routes, dispatch,
          procs, applied, store, futs, ws, sweeps, overlap, pg, twin>>

----------------------------------------------------------------------------
(* Bounds of the model *)

MaxTime == 2
MaxCap == 2
MaxOps == 3
MaxQueryLen == 4
MaxRequests == 2
MaxPathLen == 4
MaxRoutes == 2

(* Program constants *)

CLEANUP_INTERVAL == 1000

----------------------------------------------------------------------------
(* Option<T> *)

None == [some |-> FALSE]
Some(x) == [some |-> TRUE, val |-> x]

(* Strings as character sequences *)

GET_ == <<"G", "E", "T", ":">>

StartsWith(s, p) ==
    /\ Len(p) <= Len(s)
    /\ \A i \in 1..Len(p) : s[i] = p[i]

Range(s) == {s[i] : i \in 1..Len(s)}

\* The byte of a character (the ones the model's strings are made of).
Byte(c) ==
    CASE c = "&" -> 38 [] c = "+" -> 43 [] c = "/" -> 47
      [] c = "0" -> 48 [] c = "1" -> 49 [] c = "2" -> 50
      [] c = "3" -> 51 [] c = "4" -> 52 [] c = "5" -> 53
      [] c = "6" -> 54 [] c = "7" -> 55 [] c = "8" -> 56 [] c = "9" -> 57
      [] c = ":" -> 58 [] c = "=" -> 61 [] c = "?" -> 63
      [] c = "E" -> 69 [] c = "G" -> 71 [] c = "H" -> 72
      [] c = "I" -> 73 [] c = "M" -> 77 [] c = "S" -> 83 [] c = "T" -> 84
      [] c = "a" -> 97 [] c = "b" -> 98 [] c = "h" -> 104
      [] c = "j" -> 106 [] c = "p" -> 112 [] c = "u" -> 117
      [] c = "x" -> 120 [] OTHER -> 233

\* Ord for str: byte-wise lexicographic comparison, a < b.
RECURSIVE str_lt(_, _)
str_lt(a, b) ==
    IF b = <<>> THEN FALSE
    ELSE IF a = <<>> THEN TRUE
    ELSE IF Byte(Head(a)) # Byte(Head(b)) THEN Byte(Head(a)) < Byte(Head(b))
    ELSE str_lt(Tail(a), Tail(b))

\* str::split(sep): the pieces between the separators, empty ones included.
RECURSIVE split(_, _)
split(s, sep) ==
    IF \A i \in 1..Len(s) : s[i] # sep THEN <<s>>
    ELSE LET i == CHOOSE n \in 1..Len(s) :
                     s[n] = sep /\ \A j \in 1..(n - 1) : s[j] # sep
         IN <<SubSeq(s, 1, i - 1)>> \o split(SubSeq(s, i + 1, Len(s)), sep)

\* [&str]::join(sep)
RECURSIVE join(_, _)
join(parts, sep) ==
    IF parts = <<>> THEN <<>>
    ELSE IF Len(parts) = 1 THEN parts[1]
    ELSE parts[1] \o <<sep>> \o join(Tail(parts), sep)

\* Insertion of one string into a sorted list, before the first greater one.
RECURSIVE sorted_insert(_, _)
sorted_insert(sorted, x) ==
    IF sorted = <<>> THEN <<x>>
    ELSE IF str_lt(x, Head(sorted)) THEN <<x>> \o sorted
    ELSE <<Head(sorted)>> \o sorted_insert(Tail(sorted), x)

\* Vec<&str>::sort()
RECURSIVE sort(_)
sort(parts) ==
    IF parts = <<>> THEN <<>>
    ELSE sorted_insert(sort(SubSeq(parts, 1, Len(parts) - 1)), parts[Len(parts)])

\* Mutant: the query is left out of the key.
build_cache_key_no_query(path, query) == GET_ \o path

\* Mutant: the parameters are joined in the order of the request.
build_cache_key_unsorted(path, query) ==
    IF query = <<>> THEN GET_ \o path
    ELSE GET_ \o path \o <<"?">> \o join(split(query, "&"), "&")

\* build_cache_key(path, query)
build_cache_key(path, query) ==
    IF query = <<>> THEN GET_ \o path
    ELSE GET_ \o path \o <<"?">> \o join(sort(split(query, "&")), "&")

----------------------------------------------------------------------------
(* The map operations of DashMap that the backend uses *)

\* Mutant: an insert over an entry keeps the body of the entry it replaces.
MapInsert_torn(m, k, v) ==
    [x \in (DOMAIN m) \cup {k} |->
       IF x # k THEN m[x]
       ELSE IF k \in DOMAIN m
            THEN [v EXCEPT !.response.body = m[k].response.body]
            ELSE v]

\* Mutant: an insert leaves an entry that is already there (or_insert).
MapInsert_if_absent(m, k, v) ==
    [x \in (DOMAIN m) \cup {k} |-> IF x \in DOMAIN m THEN m[x] ELSE v]

MapInsert(m, k, v) == [x \in (DOMAIN m) \cup {k} |-> IF x = k THEN v ELSE m[x]]

MapRemove(m, k) == [x \in (DOMAIN m) \ {k} |-> m[x]]

MapLen(m) == Cardinality(DOMAIN m)

EmptyMap == [x \in {} |-> None]

----------------------------------------------------------------------------
(* InMemoryCache *)

\* Mutant: the TTL is not added to the expiry timestamp.
CacheEntry_no_ttl(response, t, ttl) ==
    [response |-> response, expires_at |-> t, created_at |-> t]

\* CacheEntry { response, expires_at, created_at }
CacheEntry(response, t, ttl) ==
    [response |-> response, expires_at |-> t + ttl, created_at |-> t]

\* Mutant: entries that expire within the next second are removed too.
cleanup_expired_eager(m, t) ==
    [k \in {x \in DOMAIN m : m[x].expires_at > t + 1} |-> m[k]]

\* entries.retain(|_, entry| entry.expires_at > now)
cleanup_expired(m, t) ==
    [k \in {x \in DOMAIN m : m[x].expires_at > t} |-> m[k]]

\* Mutant: the sweep runs one call early.
sweep_due_early(count) == (count + 1) % CLEANUP_INTERVAL = 0

\* The test of maybe_cleanup on the count fetch_add returned.
sweep_due(count) == count > 0 /\ count % CLEANUP_INTERVAL = 0

\* fetch_add returns the previous count; the sweep runs when it is a
\* positive multiple of CLEANUP_INTERVAL.
maybe_cleanup(m, count, t) ==
    [entries  |-> IF sweep_due(count)
                  THEN cleanup_expired(m, t) ELSE m,
     op_count |-> count + 1]

\* Mutant: max_by_key instead of min_by_key.
oldest_keys_newest(m) ==
    {k \in DOMAIN m : \A j \in DOMAIN m : m[k].created_at >= m[j].created_at}

\* The keys min_by_key(created_at) may return: DashMap's iteration order
\* is arbitrary, so any entry of minimal created_at may be the first one.
oldest_keys(m) ==
    {k \in DOMAIN m : \A j \in DOMAIN m : m[k].created_at <= m[j].created_at}

\* The maps evict_if_full may leave behind (one per choice of oldest key).
evict_if_full(m, cap, t) ==
    IF MapLen(m) < cap THEN {m}
    ELSE LET m2 == cleanup_expired(m, t) IN
         IF MapLen(m2) < cap THEN {m2}
         ELSE IF DOMAIN m2 = {} THEN {m2}
         ELSE {MapRemove(m2, k) : k \in oldest_keys(m2)}

\* Mutant: an entry is still served at its expiry timestamp.
get_lookup_at_expiry(m, key, t) ==
    IF key \in DOMAIN m /\ m[key].expires_at >= t
    THEN Some(m[key].response) ELSE None

\* The lookup of get: the entry's response when it is unexpired at t.
get_lookup(m, key, t) ==
    IF key \in DOMAIN m /\ m[key].expires_at > t
    THEN Some(m[key].response) ELSE None

\* Mutant: whatever entry the key holds is removed (remove, not remove_if).
get_remove_any(m, key, result, t) ==
    IF result = None THEN MapRemove(m, key) ELSE m

\* Mutant: an expired entry found by the lookup is left in the map.
get_remove_never(m, key, result, t) == m

\* remove_if(key, |_, entry| entry.expires_at <= now), run when the lookup
\* returned nothing.
get_remove(m, key, result, t) ==
    IF result = None /\ key \in DOMAIN m /\ m[key].expires_at <= t
    THEN MapRemove(m, key) ELSE m

\* Mutant: a hit makes the entry the newest one (eviction by last access).
backend_get_touch(m, count, key, t1, t2, t3) ==
    LET mc == maybe_cleanup(m, count, t1)
        result == get_lookup(mc.entries, key, t2)
    IN [result   |-> result,
        entries  |-> IF result = None
                     THEN get_remove(mc.entries, key, result, t3)
                     ELSE [mc.entries EXCEPT ![key].created_at = t2 + 1],
        op_count |-> mc.op_count]

\* Mutant: a hit gives the entry one more second to live.
backend_get_refresh(m, count, key, t1, t2, t3) ==
    LET mc == maybe_cleanup(m, count, t1)
        result == get_lookup(mc.entries, key, t2)
    IN [result   |-> result,
        entries  |-> IF result = None
                     THEN get_remove(mc.entries, key, result, t3)
                     ELSE [mc.entries EXCEPT ![key].expires_at = @ + 1],
        op_count |-> mc.op_count]

\* InMemoryCache::get with its three clock reads t1 <= t2 <= t3: the
\* result and the backend state it leaves.
backend_get(m, count, key, t1, t2, t3) ==
    LET mc == maybe_cleanup(m, count, t1)
        result == get_lookup(mc.entries, key, t2)
    IN [result   |-> result,
        entries  |-> get_remove(mc.entries, key, result, t3),
        op_count |-> mc.op_count]

\* InMemoryCache::set with its three clock reads: the backend states it
\* may leave.
backend_set(m, count, cap, key, response, ttl, t1, t2, t3) ==
    LET mc == maybe_cleanup(m, count, t1) IN
    {[entries  |-> MapInsert(m2, key, CacheEntry(response, t3, ttl)),
      op_count |-> mc.op_count] : m2 \in evict_if_full(mc.entries, cap, t2)}

\* Mutant: only the key equal to the prefix is removed.
invalidate_prefix_exact(m, prefix) ==
    [k \in {x \in DOMAIN m : x # prefix} |-> m[k]]

\* entries.retain(|key, _| !key.starts_with(prefix))
invalidate_prefix(m, prefix) ==
    [k \in {x \in DOMAIN m : ~StartsWith(x, prefix)} |-> m[k]]

----------------------------------------------------------------------------
(* Inputs of the backend specification *)

Keys == {GET_ \o <<"/", "u">>,
         GET_ \o <<"/", "u", "/", "1">>,
         GET_ \o <<"/", "p">>}

Prefixes == {GET_ \o <<"/", "u">>, GET_ \o <<"/", "p">>, GET_ \o <<"/">>}

Responses ==
    {[status |-> 200,
      headers |-> <<<<"content-type", <<"j">>>>, <<"x-custom", <<"p">>>>>>,
      body |-> "b1"],
     [status |-> 404, headers |-> <<>>, body |-> "b2"]}

TTLs == {0, 2}

\* What set is called with: each response for two seconds, and the second
\* one also for none.
SetInputs ==
    {x \in [response : Responses, ttl : TTLs] :
       x.ttl > 0 \/ x.response.status = 404}

\* Calls counted since the first one of the behaviour (the counter starts
\* at 0, or just below a multiple of CLEANUP_INTERVAL).
OpsDone == IF op_count >= CLEANUP_INTERVAL - 1
           THEN op_count - (CLEANUP_INTERVAL - 1) ELSE op_count

Broken == <<"broken">>

NoOp == [op |-> "none"]

\* The keys held when a call starts, each with its creation timestamp, and
\* those of them that are expired.
Held == [k \in DOMAIN entries |-> entries[k].created_at]
Stale == {k \in DOMAIN entries : entries[k].expires_at <= now}

Call(op, key, result) ==
    IF op = "get"
    THEN [op |-> op, key |-> key, result |-> result]
    ELSE [op |-> op, key |-> key, held |-> Held, stale |-> Stale]

----------------------------------------------------------------------------
(* The backend specification: sequential calls on one InMemoryCache.  A    *)
(* call is instantaneous: its clock reads all return now.                  *)

IdleMw == [n |-> 0]

\* The router before any route is registered.
RouterIdle ==
    /\ routes = EmptyMap
    /\ dispatch = None

\* No concurrent backend call is under way.
ProcsIdle ==
    /\ procs = EmptyMap
    /\ applied = "none"

\* No request is under way over the external store, which is empty.
AsyncIdle ==
    /\ store = EmptyMap
    /\ futs = EmptyMap

\* No thread calls the backend, and no sweep has run.
SweepIdle ==
    /\ ws = EmptyMap
    /\ sweeps = <<>>
    /\ overlap = FALSE

\* No pagination request is under way.
PgIdle == pg = [stage |-> "none"]

\* There is no second cache.
TwinIdle == twin = [entries |-> EmptyMap, op_count |-> 0]

\* The parts a specification leaves as they are constructed.
InitOutside == RouterIdle /\ ProcsIdle /\ AsyncIdle /\ SweepIdle /\ PgIdle /\ TwinIdle

InitRest ==
    /\ InitOutside
    /\ mw = IdleMw
    /\ handler_calls = 0
    /\ kpath = <<>>
    /\ kquery = <<>>
    /\ kkey = None

Init ==
    /\ entries = EmptyMap
    /\ op_count \in {0, CLEANUP_INTERVAL - 1}
    /\ max_entries \in 0..MaxCap
    /\ now = 0
    /\ last = NoOp
    /\ watch = None
    /\ order = <<>>
    /\ InitRest

\* The followed set call stays followed while its entry is not removed by
\* a set (eviction) or an invalidation.
WatchAfter(m) ==
    IF watch # None /\ watch.val.key \in DOMAIN m THEN watch ELSE None

Get ==
    /\ OpsDone < MaxOps
    /\ \E key \in Keys :
         LET g == backend_get(entries, op_count, key, now, now, now) IN
         /\ entries' = g.entries
         /\ op_count' = g.op_count
         /\ last' = Call("get", key, g.result)
         /\ order' = Broken
    /\ UNCHANGED <<max_entries, now, watch, mvars, kvars, xvars>>

Set ==
    /\ OpsDone < MaxOps
    /\ \E key \in Keys, x \in SetInputs :
         LET response == x.response
             ttl == x.ttl
         IN
         \E s \in backend_set(entries, op_count, max_entries, key, response,
                              ttl, now, now, now) :
         /\ entries' = s.entries
         /\ op_count' = s.op_count
         /\ last' = Call("set", key, None)
         /\ watch' \in {Some([key |-> key, response |-> response,
                              deadline |-> now + ttl])}
                       \cup (IF watch # None /\ watch.val.key = key
                             THEN {} ELSE {WatchAfter(s.entries)})
         /\ order' = IF order = Broken \/ key \in Range(order)
                     THEN Broken ELSE Append(order, key)
    /\ UNCHANGED <<max_entries, now, mvars, kvars, xvars>>

InvalidatePrefix ==
    /\ \E prefix \in Prefixes :
         /\ entries' = invalidate_prefix(entries, prefix)
         /\ last' = Call("invalidate", prefix, None)
         /\ watch' = WatchAfter(entries')
         /\ order' = Broken
    /\ UNCHANGED <<op_count, max_entries, now, mvars, kvars, xvars>>

Tick ==
    /\ now < MaxTime
    /\ now' = now + 1
    /\ UNCHANGED <<entries, op_count, max_entries, gvars, mvars, kvars, xvars>>

Next == Get \/ Set \/ InvalidatePrefix \/ Tick

Spec == Init /\ [][Next]_vars

\* The same backend with a capacity of at least one entry.
InitPos == Init /\ max_entries >= 1

SpecPos == InitPos /\ [][Next]_vars

----------------------------------------------------------------------------
(* Properties of the in-memory backend *)

IsGetStep == last'.op = "get" /\ op_count' = op_count + 1
IsSetStep == last'.op = "set" /\ op_count' = op_count + 1
IsInvalidateStep == last'.op = "invalidate" /\ op_count' = op_count /\ now' = now

\* C1 (round trip): a get of key K issued strictly before the TTL of an
\* earlier set(K, R, T) has elapsed returns exactly R, when K was not
\* overwritten, invalidated or evicted since that set.
C1_RoundTrip ==
    (/\ last.op = "get"
     /\ watch # None
     /\ watch.val.key = last.key
     /\ now < watch.val.deadline)
    => last.result = Some(watch.val.response)

C1_Witness ==
    /\ last.op = "get"
    /\ watch # None
    /\ watch.val.key = last.key
    /\ now < watch.val.deadline
    /\ last.result = Some(watch.val.response)
    /\ now > 0
    /\ Cardinality(DOMAIN entries) = 2

\* C2 (expiry): a get of K returns an entry iff K holds one whose expiry
\* timestamp is after the current time, and then returns that entry's
\* response; a get at or after creation time + T of the followed
\* set(K, R, T) returns nothing, whether or not the entry was removed.
C2_Expiry ==
    [][IsGetStep =>
        LET K == last'.key IN
        /\ (last'.result # None) <=>
              (K \in DOMAIN entries /\ now' < entries[K].expires_at)
        /\ (last'.result # None) =>
              last'.result = Some(entries[K].response)
        /\ (watch # None /\ watch.val.key = K /\ now' >= watch.val.deadline)
              => last'.result = None]_vars

\* A get of the followed key at or after its deadline, some time after
\* the set.
C2_Witness ==
    /\ last.op = "get"
    /\ watch # None
    /\ watch.val.key = last.key
    /\ watch.val.deadline > 0
    /\ now >= watch.val.deadline
    /\ last.result = None

\* Position of key k in the insertion order.
Index(seq, k) == CHOOSE i \in 1..Len(seq) : seq[i] = k

\* The step is the set of the (max_entries + 1)-th distinct key of a
\* behaviour made of sets of distinct keys only.
IsOverflowingSet ==
    /\ IsSetStep
    /\ order # Broken
    /\ order' # Broken
    /\ Len(order) = max_entries
    /\ Len(order') = max_entries + 1

C4_CapacityBound == Cardinality(DOMAIN entries) <= max_entries

\* s starts with p: s is p followed by some suffix.
HasPrefix(s, p) == \E n \in 0..Len(s) : SubSeq(s, 1, n) = p

\* C5 (prefix invalidation): after invalidate_prefix(P) no entry whose key
\* starts with P is present, and every other entry is still present with
\* the same response, creation time and expiry.
C5_Invalidate ==
    [][IsInvalidateStep =>
        LET P == last'.key IN
        /\ DOMAIN entries' \subseteq DOMAIN entries
        /\ \A k \in DOMAIN entries :
             IF HasPrefix(k, P)
             THEN k \notin DOMAIN entries'
             ELSE k \in DOMAIN entries' /\ entries'[k] = entries[k]]_vars

C5_Witness ==
    /\ last.op = "invalidate"
    /\ last.key = GET_ \o <<"/", "u">>
    /\ DOMAIN last.held = {GET_ \o <<"/", "u", "/", "1">>, GET_ \o <<"/", "p">>}
    /\ DOMAIN entries = {GET_ \o <<"/", "p">>}

----------------------------------------------------------------------------
(* CacheMiddleware.  A header map is the list of its (name, value) pairs;  *)
(* a response is a record of status, headers and body.                     *)

CACHE_TTL_HEADER == "x-rapina-cache-ttl"
CACHE_STATUS_HEADER == "x-cache"

HIT == <<"H", "I", "T">>
MISS == <<"M", "I", "S", "S">>

\* A byte that is valid in a header value but is not visible ASCII.
OpaqueByte == "0xE9"

\* HeaderMap::get: the first value of the name.
header_get(headers, name) ==
    IF \E i \in 1..Len(headers) : headers[i][1] = name
    THEN Some(headers[CHOOSE i \in 1..Len(headers) :
                        /\ headers[i][1] = name
                        /\ \A j \in 1..(i - 1) : headers[j][1] # name][2])
    ELSE None

\* HeaderMap::remove: every value of the name.
header_remove(headers, name) == SelectSeq(headers, LAMBDA h : h[1] # name)

\* HeaderMap::insert: the name's values are replaced by the one value.
header_insert(headers, name, value) ==
    IF header_get(headers, name) = None
    THEN Append(headers, <<name, value>>)
    ELSE LET first == CHOOSE i \in 1..Len(headers) :
                         /\ headers[i][1] = name
                         /\ \A j \in 1..(i - 1) : headers[j][1] # name
         IN SubSeq(headers, 1, first - 1) \o <<<<name, value>>>>
              \o header_remove(SubSeq(headers, first + 1, Len(headers)), name)

\* HeaderValue::to_str: the value, when all its bytes are visible ASCII.
to_str(value) ==
    IF \A i \in 1..Len(value) : Byte(value[i]) >= 32 /\ Byte(value[i]) < 127
    THEN Some(value) ELSE None

\* HeaderValue::from_str succeeds: no control byte in the value.
header_value_ok(value) ==
    \A i \in 1..Len(value) : Byte(value[i]) >= 32 /\ Byte(value[i]) # 127

\* HeaderName::from_bytes succeeds.
header_name_ok(name) == name # ""

Digits == {"0", "1", "2", "3", "4", "5", "6", "7", "8", "9"}

RECURSIVE parse_digits(_, _)
parse_digits(s, acc) ==
    IF s = <<>> THEN Some(acc)
    ELSE IF Head(s) \notin Digits THEN None
    ELSE parse_digits(Tail(s), 10 * acc + (Byte(Head(s)) - 48))

\* str::parse::<u64>: an optional '+', then one or more decimal digits.
parse_u64(s) ==
    LET digits == IF s # <<>> /\ Head(s) = "+" THEN Tail(s) ELSE s IN
    IF digits = <<>> THEN None ELSE parse_digits(digits, 0)

\* Mutant: a response without the marker is cached with a default TTL.
extract_ttl_header_default(headers) ==
    LET v == header_get(headers, CACHE_TTL_HEADER) IN
    IF v = None THEN Some(2)
    ELSE IF to_str(v.val) = None THEN None
    ELSE parse_u64(v.val)

\* extract_ttl_header(response)
extract_ttl_header(headers) ==
    LET v == header_get(headers, CACHE_TTL_HEADER) IN
    IF v = None THEN None
    ELSE IF to_str(v.val) = None THEN None
    ELSE parse_u64(v.val)

\* Mutant: the headers of the stored response are dropped.
build_response_from_cache_bare(cached, status) ==
    [status |-> cached.status,
     headers |-> <<<<CACHE_STATUS_HEADER, status>>>>,
     body |-> cached.body]

\* build_response_from_cache(cached, status)
build_response_from_cache(cached, status) ==
    LET valid == SelectSeq(cached.headers,
                           LAMBDA h : header_name_ok(h[1]) /\ header_value_ok(h[2]))
    IN [status |-> cached.status,
        headers |-> header_insert(valid, CACHE_STATUS_HEADER, status),
        body |-> cached.body]

\* Mutant: the body is not kept in the stored response.
cached_response_no_body(response) ==
    LET kept == header_remove(response.headers, CACHE_TTL_HEADER) IN
    [status |-> response.status,
     headers |-> [i \in 1..Len(kept) |->
                    <<kept[i][1],
                      IF to_str(kept[i][2]) = None THEN <<>> ELSE kept[i][2]>>],
     body |-> 0]

\* The CachedResponse built from the handler's response: its headers but
\* the marker, each value as to_str().unwrap_or("").
cached_response(response) ==
    LET kept == header_remove(response.headers, CACHE_TTL_HEADER) IN
    [status |-> response.status,
     headers |-> [i \in 1..Len(kept) |->
                    <<kept[i][1],
                      IF to_str(kept[i][2]) = None THEN <<>> ELSE kept[i][2]>>],
     body |-> response.body]

\* The response returned on a miss that was stored.
miss_response(response) ==
    [response EXCEPT
       !.headers = header_insert(header_remove(response.headers, CACHE_TTL_HEADER),
                                 CACHE_STATUS_HEADER, MISS)]

\* str::rfind('/')
rfind_slash(path) ==
    IF \E i \in 1..Len(path) : path[i] = "/"
    THEN Some(CHOOSE i \in 1..Len(path) :
                 path[i] = "/" /\ \A j \in (i + 1)..Len(path) : path[j] # "/")
    ELSE None

\* Mutant: the path is cut at its last '/' even when that is its first
\* character.
build_invalidation_prefix_any_slash(path) ==
    LET i == rfind_slash(path) IN
    IF i # None THEN GET_ \o SubSeq(path, 1, i.val - 1) ELSE GET_ \o path

\* build_invalidation_prefix(path); rfind's index is 0-based.
build_invalidation_prefix(path) ==
    LET i == rfind_slash(path) IN
    IF i # None /\ i.val - 1 > 0
    THEN GET_ \o SubSeq(path, 1, i.val - 1)
    ELSE GET_ \o path

\* Mutant: a POST is treated as a GET is.
is_get_or_post(method) == method \in {"GET", "POST"}

\* req.method() == Method::GET
is_get(method) == method = "GET"

\* Mutant: every method but GET counts as a mutation.
is_mutation_not_get(method) == method # "GET"

\* Mutant: only POST counts as a mutation.
is_mutation_post_only(method) == method = "POST"

is_mutation(method) == method \in {"POST", "PUT", "DELETE", "PATCH"}

\* Mutant: every status counts as a success.
is_success_any(status) == status >= 100

\* StatusCode::is_success
is_success(status) == 200 <= status /\ status < 300

\* CacheMiddleware::handle for a request and the response the rest of the
\* chain gives when it is run: the outcomes (response returned, backend
\* state left, whether the rest of the chain ran, and the calls made in
\* their order: the backend's operations and next.run).
handle(req, hresp, m, count, cap, t) ==
    IF is_get(req.method)
    THEN LET cache_key == build_cache_key(req.path, req.query)
             g == backend_get(m, count, cache_key, t, t, t)
         IN IF g.result # None
            THEN {[resp |-> build_response_from_cache(g.result.val, HIT),
                   entries |-> g.entries, op_count |-> g.op_count,
                   invoked |-> FALSE, calls |-> <<"get">>]}
            ELSE LET ttl == extract_ttl_header(hresp.headers) IN
                 IF ttl # None
                 THEN {[resp |-> miss_response(hresp),
                        entries |-> s.entries, op_count |-> s.op_count,
                        invoked |-> TRUE, calls |-> <<"get", "next.run", "set">>] :
                       s \in backend_set(g.entries, g.op_count, cap, cache_key,
                                         cached_response(hresp), ttl.val, t, t, t)}
                 ELSE {[resp |-> hresp,
                        entries |-> g.entries, op_count |-> g.op_count,
                        invoked |-> TRUE, calls |-> <<"get", "next.run">>]}
    ELSE IF is_mutation(req.method) /\ is_success(hresp.status)
         THEN {[resp |-> hresp,
                entries |-> invalidate_prefix(m, build_invalidation_prefix(req.path)),
                op_count |-> count,
                invoked |-> TRUE, calls |-> <<"next.run", "invalidate_prefix">>]}
         ELSE {[resp |-> hresp, entries |-> m, op_count |-> count,
                invoked |-> TRUE, calls |-> <<"next.run">>]}

----------------------------------------------------------------------------
(* The middleware specification: requests served one after another by a    *)
(* CacheMiddleware over an InMemoryCache.  The body the handler returns    *)
(* names the call that produced it.                                        *)

Methods == {"GET", "POST", "PUT", "DELETE", "PATCH", "HEAD", "OPTIONS"}

\* The request targets: a path and a query string.
Targets ==
    {[path |-> <<"/", "u">>, query |-> <<>>],
     [path |-> <<"/", "u">>, query |-> <<"b", "&", "a">>],
     [path |-> <<"/", "u", "/", "1">>, query |-> <<>>]}

\* What the handler answers, but for the body: no marker; a marker of two
\* seconds; a marker that is no number; a marker of two seconds written
\* "+2" beside a value that is not visible ASCII and the handler's own
\* x-cache; a marker of zero seconds.
HandlerResponses ==
    {[status |-> 200, headers |-> <<>>],
     [status |-> 200,
      headers |-> <<<<"content-type", <<"j">>>>, <<CACHE_TTL_HEADER, <<"2">>>>>>],
     [status |-> 500, headers |-> <<<<CACHE_TTL_HEADER, <<"x">>>>>>],
     [status |-> 201,
      headers |-> <<<<"x-custom", <<OpaqueByte>>>>, <<CACHE_STATUS_HEADER, <<"h">>>>,
                    <<CACHE_TTL_HEADER, <<"+", "2">>>>>>],
     [status |-> 404, headers |-> <<<<CACHE_TTL_HEADER, <<"0">>>>>>]}

InitMw ==
    /\ InitOutside
    /\ entries = EmptyMap
    /\ op_count = 0
    /\ max_entries \in 1..MaxCap
    /\ now = 0
    /\ last = NoOp
    /\ watch = None
    /\ order = <<>>
    /\ mw = IdleMw
    /\ handler_calls = 0
    /\ kpath = <<>>
    /\ kquery = <<>>
    /\ kkey = None

\* One request through CacheMiddleware::handle, its method, target and the
\* handler's answer drawn from the sets given.  mw records the request (its
\* number, method, path, query and cache key when it is a GET, and time), the
\* handler's response when the handler ran, the response returned, the
\* calls made in order and the keys of the unexpired entries it removed.
Serve(methods, targets, answers) ==
    /\ \E method \in methods, target \in targets, h \in answers :
         LET req == [method |-> method, path |-> target.path,
                     query |-> target.query]
             hresp == [status |-> h.status, headers |-> h.headers,
                       body |-> handler_calls + 1]
         IN \E o \in handle(req, hresp, entries, op_count, max_entries, now) :
              /\ entries' = o.entries
              /\ op_count' = o.op_count
              /\ handler_calls' = IF o.invoked THEN handler_calls + 1
                                   ELSE handler_calls
              /\ mw' = [n |-> mw.n + 1, method |-> method, path |-> target.path,
                         query |-> IF method = "GET" THEN target.query ELSE <<>>,
                         key |-> IF method = "GET"
                                 THEN build_cache_key(target.path, target.query)
                                 ELSE <<>>,
                         at |-> now,
                         hresp |-> IF o.invoked THEN Some(hresp) ELSE None,
                         resp |-> o.resp, calls |-> o.calls,
                         dropped |-> {k \in DOMAIN entries \ DOMAIN o.entries :
                                        entries[k].expires_at > now}]
    /\ UNCHANGED <<max_entries, now, gvars, kvars, xvars>>

Request ==
    /\ mw.n < MaxRequests
    /\ Serve(Methods, Targets, HandlerResponses)

TickMw ==
    /\ now < MaxTime
    /\ now' = now + 1
    /\ UNCHANGED <<entries, op_count, max_entries, gvars, mvars, kvars, xvars>>

NextMw == Request \/ TickMw

SpecMw == InitMw /\ [][NextMw]_vars

----------------------------------------------------------------------------
(* The sequence specification: one request more than in SpecMw, to routes  *)
(* whose handlers answer 200 with a marker of two seconds or 500 with a    *)
(* marker that is no number.                                               *)

SeqResponses ==
    {h \in HandlerResponses :
       \/ h.status = 200 /\ h.headers # <<>>
       \/ h.status = 500}

RequestSeq ==
    /\ mw.n < MaxRequests + 1
    /\ Serve(Methods, Targets, SeqResponses)

NextSeq == RequestSeq \/ TickMw

SpecSeq == InitMw /\ [][NextSeq]_vars

----------------------------------------------------------------------------
(* The prefix specification: build_invalidation_prefix applied to a path *)

PathChars == {"/", "u", "1"}

RECURSIVE StringsOver(_, _)
StringsOver(chars, n) ==
    IF n = 0 THEN {<<>>}
    ELSE LET shorter == StringsOver(chars, n - 1) IN
         shorter \cup {Append(s, c) : s \in shorter, c \in chars}

PrefixPaths == StringsOver(PathChars, MaxPathLen)

InitPrefix ==
    /\ InitOutside
    /\ kpath \in PrefixPaths
    /\ kquery = <<>>
    /\ kkey = None
    /\ entries = EmptyMap
    /\ op_count = 0
    /\ max_entries = 0
    /\ now = 0
    /\ last = NoOp
    /\ watch = None
    /\ order = <<>>
    /\ mw = IdleMw
    /\ handler_calls = 0

BuildPrefix ==
    /\ kkey = None
    /\ kkey' = Some(build_invalidation_prefix(kpath))
    /\ UNCHANGED <<kpath, kquery, entries, op_count, max_entries, now,
                   gvars, mvars, xvars>>

NextPrefix == BuildPrefix

SpecPrefix == InitPrefix /\ [][NextPrefix]_vars

----------------------------------------------------------------------------
(* The key specification: build_cache_key applied to a path and a query *)

KeyPaths == {<<"/">>, <<"/", "u">>}

QueryChars == {"a", "b", "&"}

RECURSIVE StringsUpTo(_)
StringsUpTo(n) ==
    IF n = 0 THEN {<<>>}
    ELSE LET shorter == StringsUpTo(n - 1) IN
         shorter \cup {Append(s, c) : s \in shorter, c \in QueryChars}

Queries == StringsUpTo(MaxQueryLen)

InitKey ==
    /\ InitOutside
    /\ kpath \in KeyPaths
    /\ kquery \in Queries
    /\ kkey = None
    /\ entries = EmptyMap
    /\ op_count = 0
    /\ max_entries = 0
    /\ now = 0
    /\ last = NoOp
    /\ watch = None
    /\ order = <<>>
    /\ mw = IdleMw
    /\ handler_calls = 0

BuildKey ==
    /\ kkey = None
    /\ kkey' = Some(build_cache_key(kpath, kquery))
    /\ UNCHANGED <<kpath, kquery, entries, op_count, max_entries, now,
                   gvars, mvars, xvars>>

NextKey == BuildKey

SpecKey == InitKey /\ [][NextKey]_vars

\* How often x occurs in the list.
Count(list, x) == Cardinality({i \in 1..Len(list) : list[i] = x})

\* The two lists hold the same elements, each as often.
IsPermutation(l1, l2) ==
    /\ Len(l1) = Len(l2)
    /\ \A x \in Range(l1) \cup Range(l2) : Count(l1, x) = Count(l2, x)

\* The '&'-separated parameters of a query: the maximal runs without '&'.
Params(q) ==
    LET cuts == <<0>> \o SelectSeq([i \in 1..Len(q) |-> IF q[i] = "&" THEN i ELSE 0],
                                   LAMBDA i : i > 0) \o <<Len(q) + 1>>
    IN [i \in 1..(Len(cuts) - 1) |-> SubSeq(q, cuts[i] + 1, cuts[i + 1] - 1)]

\* a <= b in lexical (byte-wise) order: a is a prefix of b, or they first
\* differ at a position where a has the smaller byte.
LexLe(a, b) ==
    \/ Len(a) <= Len(b) /\ SubSeq(b, 1, Len(a)) = a
    \/ \E n \in 1..Len(a) :
         /\ n <= Len(b)
         /\ SubSeq(a, 1, n - 1) = SubSeq(b, 1, n - 1)
         /\ Byte(a[n]) < Byte(b[n])

IsSorted(list) == \A i \in 1..(Len(list) - 1) : LexLe(list[i], list[i + 1])

\* C6 (key canonicalization): two queries that are permutations of the same
\* '&'-separated parameters give the same key; the key is "GET:" + path for
\* the empty query and "GET:" + path + "?" + the lexically sorted
\* parameters joined by "&" otherwise.
C6_Canonical ==
    kkey # None =>
      /\ \A q2 \in Queries :
           (Len(q2) = Len(kquery) /\ IsPermutation(Params(kquery), Params(q2)))
             => build_cache_key(kpath, q2) = kkey.val
      /\ kquery = <<>> => kkey.val = GET_ \o kpath
      /\ kquery # <<>> =>
           /\ Len(kkey.val) = Len(GET_) + Len(kpath) + 1 + Len(kquery)
           /\ SubSeq(kkey.val, 1, Len(GET_) + Len(kpath) + 1)
                = GET_ \o kpath \o <<"?">>
           /\ LET sorted == Params(SubSeq(kkey.val, Len(GET_) + Len(kpath) + 2,
                                          Len(kkey.val)))
              IN IsSorted(sorted) /\ IsPermutation(sorted, Params(kquery))

\* The key of a query whose parameters were not in sorted order.
C6_Witness ==
    /\ kkey # None
    /\ kquery = <<"b", "&", "a", "b">>
    /\ kkey.val = GET_ \o kpath \o <<"?", "a", "b", "&", "b">>

----------------------------------------------------------------------------
(* Claims about CacheMiddleware, checked under SpecMw *)

\* The step is one request through the middleware.
IsRequest == mw'.n = mw.n + 1

\* The response of the unexpired entry the backend holds for the key.
HeldFor(key) ==
    IF key \in DOMAIN entries /\ entries[key].expires_at > now
    THEN Some(entries[key].response) ELSE None

\* The headers but those of the one name.
Others(headers, name) == SelectSeq(headers, LAMBDA h : h[1] # name)

\* The values the headers carry for the name.
Values(headers, name) ==
    {headers[i][2] : i \in {j \in 1..Len(headers) : headers[j][1] = name}}

\* The seconds a handler's response asks to be cached for, when its marker
\* is a decimal number.
MarkerSeconds(response) ==
    LET v == Values(response.headers, CACHE_TTL_HEADER) IN
    IF v = {<<"2">>} \/ v = {<<"+", "2">>} THEN Some(2)
    ELSE IF v = {<<"0">>} THEN Some(0)
    ELSE None

\* C7 as stated: on a GET whose key has an unexpired entry, the response
\* has the stored status and body, every stored header, and x-cache: HIT,
\* and the handler is not invoked.
C7_AsStated ==
    [][IsRequest /\ mw'.method = "GET" /\ HeldFor(mw'.key) # None =>
         LET stored == HeldFor(mw'.key).val IN
         /\ mw'.resp.status = stored.status
         /\ mw'.resp.body = stored.body
         /\ Range(stored.headers) \subseteq Range(mw'.resp.headers)
         /\ <<CACHE_STATUS_HEADER, HIT>> \in Range(mw'.resp.headers)
         /\ mw'.hresp = None
         /\ handler_calls' = handler_calls]_vars

\* C7: on a GET whose key has an unexpired entry, the response has the
\* stored status and body, the stored headers other than x-cache in their
\* order, and the one x-cache value HIT (a stored x-cache is replaced), and
\* the handler is not invoked.
C7_Hit ==
    [][IsRequest /\ mw'.method = "GET" /\ HeldFor(mw'.key) # None =>
         LET stored == HeldFor(mw'.key).val IN
         /\ mw'.resp.status = stored.status
         /\ mw'.resp.body = stored.body
         /\ Others(mw'.resp.headers, CACHE_STATUS_HEADER)
              = Others(stored.headers, CACHE_STATUS_HEADER)
         /\ Values(mw'.resp.headers, CACHE_STATUS_HEADER) = {HIT}
         /\ mw'.hresp = None
         /\ handler_calls' = handler_calls]_vars

\* A second request, a GET, was answered from the entry the first stored:
\* with its content-type and HIT, without running the handler again.
C7_Witness ==
    /\ mw.n = 2
    /\ mw.method = "GET"
    /\ mw.hresp = None
    /\ handler_calls = 1
    /\ mw.resp = [status |-> 200,
                  headers |-> <<<<"content-type", <<"j">>>>,
                                <<CACHE_STATUS_HEADER, HIT>>>>,
                  body |-> 1]

\* The handler ran for a GET and its response carried a marker of N > 0 s.
IsMarkedMiss(m) ==
    /\ m.n >= 1
    /\ m.method = "GET"
    /\ m.hresp # None
    /\ MarkerSeconds(m.hresp.val) # None
    /\ MarkerSeconds(m.hresp.val).val > 0

\* C8: when a GET misses and the handler's response carries the marker with
\* N > 0 seconds, the response is returned without the marker and with
\* x-cache: MISS, and is stored under the key until N seconds later; the
\* same GET as the next request, less than N seconds later, is answered
\* with x-cache: HIT and the same status and body, the handler not run.
C8_MissThenHit ==
    [][IsRequest =>
         /\ IsMarkedMiss(mw') =>
              LET h == mw'.hresp.val IN
              /\ mw'.resp.status = h.status
              /\ mw'.resp.body = h.body
              /\ Values(mw'.resp.headers, CACHE_STATUS_HEADER) = {MISS}
              /\ Values(mw'.resp.headers, CACHE_TTL_HEADER) = {}
              /\ Others(Others(mw'.resp.headers, CACHE_STATUS_HEADER),
                        CACHE_TTL_HEADER)
                   = Others(Others(h.headers, CACHE_STATUS_HEADER),
                            CACHE_TTL_HEADER)
              /\ mw'.key \in DOMAIN entries'
              /\ entries'[mw'.key].response.status = h.status
              /\ entries'[mw'.key].response.body = h.body
              /\ entries'[mw'.key].expires_at = now + MarkerSeconds(h).val
         /\ ( /\ IsMarkedMiss(mw)
              /\ mw'.method = "GET"
              /\ mw'.key = mw.key
              /\ now < mw.at + MarkerSeconds(mw.hresp.val).val ) =>
              /\ Values(mw'.resp.headers, CACHE_STATUS_HEADER) = {HIT}
              /\ mw'.resp.status = mw.resp.status
              /\ mw'.resp.body = mw.resp.body
              /\ mw'.hresp = None]_vars

\* A GET one second after the same GET was stored for two seconds is a HIT
\* with the status and the body of the first response.
C8_Witness ==
    /\ mw.n = 2
    /\ mw.method = "GET"
    /\ mw.at = 1
    /\ mw.hresp = None
    /\ handler_calls = 1
    /\ mw.resp.status = 201
    /\ mw.resp.body = 1
    /\ Values(mw.resp.headers, CACHE_STATUS_HEADER) = {HIT}
    /\ mw.key \in DOMAIN entries
    /\ entries[mw.key].created_at = 0
    /\ entries[mw.key].expires_at = 2

\* C9: no response the middleware returns carries x-rapina-cache-ttl, and
\* no stored entry carries it.
C9_NoMarkerLeak ==
    /\ mw.n >= 1 => Values(mw.resp.headers, CACHE_TTL_HEADER) = {}
    /\ \A k \in DOMAIN entries :
         Values(entries[k].response.headers, CACHE_TTL_HEADER) = {}

\* C10: when the handler runs for a GET and its response has no marker, the
\* response is returned as the handler made it, the backend's set is not
\* called and holds no entry for the key afterwards; the same GET as the
\* next request runs the handler again.
C10_NoHiddenCaching ==
    [][IsRequest =>
         /\ ( /\ mw'.method = "GET"
              /\ mw'.hresp # None
              /\ Values(mw'.hresp.val.headers, CACHE_TTL_HEADER) = {} ) =>
              /\ mw'.resp = mw'.hresp.val
              /\ Values(mw'.resp.headers, CACHE_STATUS_HEADER) = {}
              /\ "set" \notin Range(mw'.calls)
              /\ mw'.key \notin DOMAIN entries'
         /\ ( /\ mw.n >= 1
              /\ mw.method = "GET"
              /\ mw.hresp # None
              /\ Values(mw.hresp.val.headers, CACHE_TTL_HEADER) = {}
              /\ mw'.method = "GET"
              /\ mw'.key = mw.key ) =>
              /\ mw'.hresp # None
              /\ handler_calls' = handler_calls + 1]_vars

\* The same GET twice, the handler's response without a marker both times:
\* the second response is the handler's second, and nothing is stored.
C10_Witness ==
    /\ mw.n = 2
    /\ mw.method = "GET"
    /\ mw.key = GET_ \o <<"/", "u", "?", "a", "&", "b">>
    /\ handler_calls = 2
    /\ mw.hresp = Some([status |-> 200, headers |-> <<>>, body |-> 2])
    /\ mw.resp = [status |-> 200, headers |-> <<>>, body |-> 2]
    /\ mw.calls = <<"get", "next.run">>
    /\ entries = EmptyMap

----------------------------------------------------------------------------
(* Claims about invalidation and methods, checked under SpecSeq *)

MutationMethods == {"POST", "PUT", "DELETE", "PATCH"}

\* The path cut before its last '/', when it has one and that is not its
\* first character; the whole path otherwise.
PrefixPath(path) ==
    LET slashes == {i \in 1..Len(path) : path[i] = "/"}
        final == CHOOSE i \in slashes : \A j \in slashes : j <= i
    IN IF slashes # {} /\ final # 1 THEN SubSeq(path, 1, final - 1) ELSE path

\* The request recorded was a mutation answered with a 2xx status.
IsSuccessfulMutation(m) ==
    /\ m.n >= 1
    /\ m.method \in MutationMethods
    /\ m.resp.status \in 200..299

\* C11: after a POST, PUT, DELETE or PATCH on path P answered with a 2xx
\* status no entry is left whose key starts with GET: and the prefix of P,
\* and a GET of such a key as the next request runs the handler and is not
\* answered as a HIT.
C11_MutationInvalidates ==
    [][IsRequest =>
         /\ IsSuccessfulMutation(mw') =>
              \A k \in DOMAIN entries' :
                 ~StartsWith(k, GET_ \o PrefixPath(mw'.path))
         /\ ( /\ IsSuccessfulMutation(mw)
              /\ mw'.method = "GET"
              /\ StartsWith(mw'.key, GET_ \o PrefixPath(mw.path)) ) =>
              /\ mw'.hresp # None
              /\ handler_calls' = handler_calls + 1
              /\ HIT \notin Values(mw'.resp.headers, CACHE_STATUS_HEADER)]_vars

\* A DELETE of /u/1 answered 200 removed the unexpired entry of /u?a&b.
C11_Witness ==
    /\ mw.n = 2
    /\ mw.method = "DELETE"
    /\ mw.path = <<"/", "u", "/", "1">>
    /\ mw.resp.status = 200
    /\ mw.calls = <<"next.run", "invalidate_prefix">>
    /\ mw.dropped = {GET_ \o <<"/", "u", "?", "a", "&", "b">>}
    /\ entries = EmptyMap

\* C12: a POST, PUT, DELETE or PATCH runs the rest of the chain, and runs
\* it before any backend operation; when the status is outside 200..299
\* it calls no backend operation and the store is as it was.
C12_MutationFrame ==
    [][IsRequest /\ mw'.method \in MutationMethods =>
         /\ mw'.hresp # None
         /\ handler_calls' = handler_calls + 1
         /\ mw'.calls # <<>>
         /\ mw'.calls[1] = "next.run"
         /\ mw'.resp.status \notin 200..299 =>
              /\ mw'.calls = <<"next.run">>
              /\ entries' = entries
              /\ op_count' = op_count]_vars

\* A PUT of /u/1 answered 500 left the unexpired entry of /u in the store.
C12_Witness ==
    /\ mw.n = 2
    /\ mw.method = "PUT"
    /\ mw.path = <<"/", "u", "/", "1">>
    /\ mw.resp.status = 500
    /\ mw.calls = <<"next.run">>
    /\ handler_calls = 2
    /\ DOMAIN entries = {GET_ \o <<"/", "u">>}
    /\ entries[GET_ \o <<"/", "u">>].expires_at > now

C14_Passthrough ==
    [][IsRequest /\ mw'.method \notin ({"GET"} \cup MutationMethods) =>
         /\ mw'.hresp # None
         /\ handler_calls' = handler_calls + 1
         /\ mw'.resp = mw'.hresp.val
         /\ mw'.calls = <<"next.run">>
         /\ entries' = entries
         /\ op_count' = op_count]_vars

\* A HEAD of /u answered 200 while the store holds the unexpired entry of
\* GET /u: the handler ran and the entry is still there.
C14_Witness ==
    /\ mw.n = 2
    /\ mw.method = "HEAD"
    /\ mw.path = <<"/", "u">>
    /\ mw.resp = [status |-> 200, headers |-> <<>>, body |-> 2]
    /\ mw.calls = <<"next.run">>
    /\ handler_calls = 2
    /\ DOMAIN entries = {GET_ \o <<"/", "u">>}
    /\ entries[GET_ \o <<"/", "u">>].expires_at > now

----------------------------------------------------------------------------
(* Claims about the query in the key, checked under SpecSeq *)

\* The two queries have different lists of sorted parameters.
ParamsDiffer(q1, q2) == ~IsPermutation(Params(q1), Params(q2))

\* The queries compared pairwise.
ShortQueries == StringsUpTo(MaxQueryLen - 1)

\* On every path, two queries whose sorted parameters differ have
\* different keys.
QueryKeysDiffer ==
    LET params == [q \in ShortQueries |-> Params(q)] IN
    \A p \in KeyPaths :
       LET key == [q \in ShortQueries |-> build_cache_key(p, q)] IN
       \A q1, q2 \in ShortQueries :
          ~IsPermutation(params[q1], params[q2]) => key[q1] # key[q2]

\* C15: two queries of one path whose sorted parameters differ have
\* different keys; a GET whose key has no entry runs the handler, whatever
\* is stored for other queries; a GET answered from the store returns the
\* body stored under its own key; and a GET that follows a GET of the same
\* path with other parameters is not answered with that one's body.
C15_QueryInKey ==
    [][IsRequest /\ mw'.method = "GET" =>
         /\ QueryKeysDiffer
         /\ mw'.key \notin DOMAIN entries => mw'.hresp # None
         /\ mw'.hresp = None =>
              /\ mw'.key \in DOMAIN entries
              /\ mw'.resp.body = entries[mw'.key].response.body
         /\ ( /\ mw.n >= 1
              /\ mw.method = "GET"
              /\ mw.path = mw'.path
              /\ ParamsDiffer(mw.query, mw'.query) ) =>
              /\ mw'.key # mw.key
              /\ mw'.resp.body # mw.resp.body]_vars

\* GET /u, GET /u?b&a, GET /u at one time: the third is answered from the
\* store with the body of the first while the body of the second is
\* stored under the other key.
C15_Witness ==
    /\ mw.n = 3
    /\ mw.method = "GET"
    /\ mw.query = <<>>
    /\ mw.key = GET_ \o <<"/", "u">>
    /\ mw.hresp = None
    /\ mw.resp.body = 1
    /\ Values(mw.resp.headers, CACHE_STATUS_HEADER) = {HIT}
    /\ handler_calls = 2
    /\ DOMAIN entries = {GET_ \o <<"/", "u">>,
                         GET_ \o <<"/", "u", "?", "a", "&", "b">>}
    /\ entries[GET_ \o <<"/", "u", "?", "a", "&", "b">>].response.body = 2

----------------------------------------------------------------------------
(* Claims about build_invalidation_prefix, checked under SpecPrefix *)

\* C16: build_invalidation_prefix returns "GET:" followed by the path cut
\* before its last '/' when that '/' is not at index 0, and by the whole
\* path otherwise: /u/1 gives GET:/u, /u gives GET:/u and / gives GET:/.
C16_PrefixDerivation ==
    kkey # None =>
      /\ kkey.val = GET_ \o PrefixPath(kpath)
      /\ kpath = <<"/", "u", "/", "1">> => kkey.val = GET_ \o <<"/", "u">>
      /\ kpath = <<"/", "u">> => kkey.val = GET_ \o <<"/", "u">>
      /\ kpath = <<"/">> => kkey.val = GET_ \o <<"/">>

\* The prefix of /u/1 is GET:/u.
C16_Witness ==
    /\ kpath = <<"/", "u", "/", "1">>
    /\ kkey = Some(GET_ \o <<"/", "u">>)

----------------------------------------------------------------------------
(* Router (rapina/src/router.rs) *)

\* StatusCode::into_response: the status with no header and an empty body.
status_into_response(status) ==
    [status |-> status, headers |-> <<>>, body |-> <<>>]

\* What a registered handler answers: each handler its own response.
handler_response(handler) ==
    [status |-> IF handler = "h1" THEN 200 ELSE 201,
     headers |-> <<>>,
     body |-> <<handler>>]

\* Router::route: HashMap::insert under the (method, path) pair.
route(table, method, path, handler) ==
    MapInsert(table, <<method, path>>, handler)

\* Mutant: the lookup finds a route of the path under any method.
router_handle_any_method(table, method, path) ==
    IF \E k \in DOMAIN table : k[2] = path
    THEN LET k == CHOOSE k \in DOMAIN table : k[2] = path IN
         [resp |-> handler_response(table[k]), invoked |-> {table[k]}]
    ELSE [resp |-> status_into_response(404), invoked |-> {}]

\* Router::handle: the response and the handlers invoked.
router_handle(table, method, path) ==
    IF <<method, path>> \in DOMAIN table
    THEN [resp |-> handler_response(table[<<method, path>>]),
          invoked |-> {table[<<method, path>>]}]
    ELSE [resp |-> status_into_response(404), invoked |-> {}]

RouterMethods == {"GET", "POST"}

RouterPaths == {<<"/", "u">>, <<"/", "u", "/">>, <<"/", "u", "/", "1">>}

Handlers == {"h1", "h2"}

\* The store as constructed and not used.
InitStore ==
    /\ entries = EmptyMap
    /\ op_count = 0
    /\ max_entries = 0
    /\ now = 0
    /\ last = NoOp
    /\ watch = None
    /\ order = <<>>

InitRouter ==
    /\ InitStore
    /\ mw = IdleMw
    /\ handler_calls = 0
    /\ kpath = <<>>
    /\ kquery = <<>>
    /\ kkey = None
    /\ routes = EmptyMap
    /\ dispatch = None
    /\ ProcsIdle
    /\ AsyncIdle
    /\ SweepIdle
    /\ PgIdle
    /\ TwinIdle

\* Router::route, called while the router is built, before it serves.
Route ==
    /\ dispatch = None
    /\ \E method \in RouterMethods, path \in RouterPaths, handler \in Handlers :
         /\ <<method, path>> \in DOMAIN routes \/ MapLen(routes) < MaxRoutes
         /\ routes' = route(routes, method, path, handler)
    /\ UNCHANGED <<entries, op_count, max_entries, now, gvars, mvars, kvars,
                   cvars, avars, svars, pg, twin, dispatch>>

\* Router::handle for one request.
RouterHandle ==
    /\ \E method \in RouterMethods, path \in RouterPaths :
         LET r == router_handle(routes, method, path) IN
         dispatch' = Some([method |-> method, path |-> path,
                           resp |-> r.resp, invoked |-> r.invoked])
    /\ UNCHANGED <<entries, op_count, max_entries, now, gvars, mvars, kvars,
                   cvars, avars, svars, pg, twin, routes>>

NextRouter == Route \/ RouterHandle

SpecRouter == InitRouter /\ [][NextRouter]_vars

----------------------------------------------------------------------------
(* Claims about the router, checked under SpecRouter *)

\* C17: Router::handle invokes the handler registered for exactly the
\* request's (method, path) pair, and no other, and returns its response;
\* when none is registered for that pair, even one for the path under the
\* other method, it invokes no handler and answers 404 with an empty body.
C17_RouterDispatch ==
    dispatch # None =>
      LET d == dispatch.val
          registered == {k \in DOMAIN routes : k[1] = d.method /\ k[2] = d.path}
      IN /\ registered # {} =>
              /\ d.invoked = {routes[<<d.method, d.path>>]}
              /\ d.resp.body = <<routes[<<d.method, d.path>>]>>
              /\ d.resp.status \in {200, 201}
         /\ registered = {} =>
              /\ d.invoked = {}
              /\ d.resp.status = 404
              /\ d.resp.body = <<>>

\* A GET of /u while /u is registered under POST only, and /u/ under GET:
\* 404, and no handler ran.
C17_Witness ==
    /\ DOMAIN routes = {<<"POST", <<"/", "u">>>>, <<"GET", <<"/", "u", "/">>>>}
    /\ dispatch # None
    /\ dispatch.val.method = "GET"
    /\ dispatch.val.path = <<"/", "u">>
    /\ dispatch.val.invoked = {}
    /\ dispatch.val.resp.status = 404

----------------------------------------------------------------------------
(* The concurrent specification: two set calls, a get and an               *)
(* invalidate_prefix on one key of one InMemoryCache, each running once,   *)
(* interleaved at the operations on the DashMap and on op_count.  DashMap  *)
(* locks the shard of a key for each operation on it, so an operation on   *)
(* one key is one step; retain, len and iter, which visit the shards one   *)
(* after another, are taken as one step each.  A clock read is taken       *)
(* together with the map operation that uses it.                           *)

ConcKey == GET_ \o <<"/", "u">>

OtherKey == GET_ \o <<"/", "p">>

ConcPrefix == GET_ \o <<"/", "u">>

Pids == {"a", "b", "g", "i"}

\* The calls: set(K, first response, 2s), set(K, second response, ttl),
\* get(K) and invalidate_prefix.
ProcsWith(ttl) ==
    [p \in Pids |->
       [op |-> CASE p = "a" -> "set" [] p = "b" -> "set"
                 [] p = "g" -> "get" [] OTHER -> "invalidate_prefix",
        pc |-> "start",
        response |-> CASE p = "a" -> CHOOSE r \in Responses : r.status = 200
                       [] p = "b" -> CHOOSE r \in Responses : r.status = 404
                       [] OTHER -> None,
        ttl |-> IF p = "b" THEN ttl ELSE 2,
        result |-> None,
        oldest |-> None,
        inserted |-> None,
        seen |-> None,
        found |-> None]]

\* The store holds the entry of an earlier set of another key.
InitConc ==
    /\ entries = MapInsert(EmptyMap, OtherKey,
                           CacheEntry(CHOOSE r \in Responses : r.status = 200, 0, 2))
    /\ op_count \in {1, CLEANUP_INTERVAL - 1}
    /\ max_entries \in 1..MaxCap
    /\ now = 0
    /\ last = NoOp
    /\ watch = None
    /\ order = <<>>
    /\ mw = IdleMw
    /\ handler_calls = 0
    /\ kpath = <<>>
    /\ kquery = <<>>
    /\ kkey = None
    /\ RouterIdle
    /\ AsyncIdle
    /\ SweepIdle
    /\ PgIdle
    /\ TwinIdle
    /\ procs \in {ProcsWith(ttl) : ttl \in TTLs}
    /\ applied = "none"

\* The last write of the contended key, after a step that leaves the map m.
AppliedAfter(m) ==
    IF ConcKey \in DOMAIN entries /\ ConcKey \notin DOMAIN m
    THEN "removed" ELSE applied

\* The step of p leaves the map m and takes p to pc.
Step(p, m, pc) ==
    /\ entries' = m
    /\ applied' = AppliedAfter(m)
    /\ procs' = [procs EXCEPT ![p].pc = pc]

ConcRest == <<max_entries, gvars, mvars, kvars, rvars, avars, svars, pg, twin>>

\* maybe_cleanup: op_count.fetch_add(1)
FetchAdd ==
    \E p \in Pids :
       /\ procs[p].pc = "start"
       /\ procs[p].op \in {"get", "set"}
       /\ op_count' = op_count + 1
       /\ procs' = [procs EXCEPT ![p].pc =
                      IF sweep_due(op_count)
                      THEN "sweep"
                      ELSE IF procs[p].op = "get" THEN "read" ELSE "len1"]
       /\ UNCHANGED <<entries, applied, now, ConcRest>>

\* maybe_cleanup: cleanup_expired
Sweep ==
    \E p \in Pids :
       /\ procs[p].pc = "sweep"
       /\ Step(p, cleanup_expired(entries, now),
               IF procs[p].op = "get" THEN "read" ELSE "len1")
       /\ UNCHANGED <<op_count, now, ConcRest>>

\* get: entries.get(key) and the test of its expiry
Read ==
    \E p \in Pids :
       /\ procs[p].pc = "read"
       /\ LET result == get_lookup(entries, ConcKey, now) IN
          procs' = [procs EXCEPT ![p].result = result,
                                 ![p].seen = IF ConcKey \in DOMAIN entries
                                             THEN Some(entries[ConcKey])
                                             ELSE None,
                                 ![p].pc = IF result = None THEN "remove_if"
                                           ELSE "done"]
       /\ UNCHANGED <<entries, applied, op_count, now, ConcRest>>

\* get: entries.remove_if(key, expired)
RemoveIf ==
    \E p \in Pids :
       /\ procs[p].pc = "remove_if"
       /\ entries' = get_remove(entries, ConcKey, None, now)
       /\ applied' = AppliedAfter(entries')
       /\ procs' = [procs EXCEPT ![p].found = IF ConcKey \in DOMAIN entries
                                              THEN Some(entries[ConcKey])
                                              ELSE None,
                                 ![p].pc = "done"]
       /\ UNCHANGED <<op_count, now, ConcRest>>

\* evict_if_full: the first test of entries.len()
Len1 ==
    \E p \in Pids :
       /\ procs[p].pc = "len1"
       /\ procs' = [procs EXCEPT ![p].pc = IF MapLen(entries) < max_entries
                                           THEN "insert" ELSE "cleanup"]
       /\ UNCHANGED <<entries, applied, op_count, now, ConcRest>>

\* evict_if_full: cleanup_expired
Cleanup ==
    \E p \in Pids :
       /\ procs[p].pc = "cleanup"
       /\ Step(p, cleanup_expired(entries, now), "len2")
       /\ UNCHANGED <<op_count, now, ConcRest>>

\* evict_if_full: the second test of entries.len()
Len2 ==
    \E p \in Pids :
       /\ procs[p].pc = "len2"
       /\ procs' = [procs EXCEPT ![p].pc = IF MapLen(entries) < max_entries
                                           THEN "insert" ELSE "scan"]
       /\ UNCHANGED <<entries, applied, op_count, now, ConcRest>>

\* evict_if_full: entries.iter().min_by_key(created_at)
Scan ==
    \E p \in Pids :
       /\ procs[p].pc = "scan"
       /\ \/ /\ DOMAIN entries = {}
             /\ procs' = [procs EXCEPT ![p].pc = "insert"]
          \/ \E k \in oldest_keys(entries) :
                procs' = [procs EXCEPT ![p].oldest = Some(k), ![p].pc = "evict"]
       /\ UNCHANGED <<entries, applied, op_count, now, ConcRest>>

\* evict_if_full: entries.remove(&key)
Evict ==
    \E p \in Pids :
       /\ procs[p].pc = "evict"
       /\ Step(p, MapRemove(entries, procs[p].oldest.val), "insert")
       /\ UNCHANGED <<op_count, now, ConcRest>>

\* set: entries.insert(key, CacheEntry { .. })
Insert ==
    \E p \in Pids :
       /\ procs[p].pc = "insert"
       /\ LET entry == CacheEntry(procs[p].response, now, procs[p].ttl) IN
          /\ entries' = MapInsert(entries, ConcKey, entry)
          /\ procs' = [procs EXCEPT ![p].inserted = Some(entry), ![p].pc = "done"]
       /\ applied' = p
       /\ UNCHANGED <<op_count, now, ConcRest>>

\* invalidate_prefix: entries.retain(..)
Retain ==
    \E p \in Pids :
       /\ procs[p].pc = "start"
       /\ procs[p].op = "invalidate_prefix"
       /\ Step(p, invalidate_prefix(entries, ConcPrefix), "done")
       /\ UNCHANGED <<op_count, now, ConcRest>>

TickConc ==
    /\ now < MaxTime
    /\ now' = now + 1
    /\ UNCHANGED <<entries, op_count, cvars, ConcRest>>

NextConc ==
    \/ FetchAdd \/ Sweep \/ Read \/ RemoveIf \/ Len1 \/ Cleanup \/ Len2
    \/ Scan \/ Evict \/ Insert \/ Retain \/ TickConc

SpecConc == InitConc /\ [][NextConc]_vars

----------------------------------------------------------------------------
(* Claims about concurrent calls on one key, checked under SpecConc *)

Setters == {p \in Pids : procs[p].op = "set"}

\* C18: under every interleaving of the calls on key K, a get returns
\* nothing or the whole response of one set whose insert was applied, and
\* once both sets have returned, with no entry of K removed since the last
\* insert, the entry stored for K is the one that insert wrote.
C18_SameKeyLinearizable ==
    /\ \A p \in Pids :
         procs[p].op = "get" /\ procs[p].result # None =>
           \E q \in Setters :
              /\ procs[q].inserted # None
              /\ procs[p].result.val = procs[q].response
    /\ ( /\ \A q \in Setters : procs[q].pc = "done"
         /\ applied \in Setters ) =>
           /\ ConcKey \in DOMAIN entries
           /\ entries[ConcKey] = procs[applied].inserted.val
           /\ entries[ConcKey].response = procs[applied].response

\* The get read the entry of b between the two inserts, a's insert came
\* last, and the entry stored is a's.
C18_Witness ==
    /\ procs # EmptyMap
    /\ \A p \in Pids : procs[p].pc = "done"
    /\ applied = "a"
    /\ procs["g"].result = Some(procs["b"].response)
    /\ entries[ConcKey].response = procs["a"].response
    /\ procs["b"].inserted # None

----------------------------------------------------------------------------
(* RedisCache (rapina/src/cache_redis.rs): the external-store backend.     *)
(* The store maps a full key to a string value and the instant it expires  *)
(* at, if any.  A value written by RedisCache::set is the JSON text of a   *)
(* StoredResponse, modelled as the sequence of its field names and field   *)
(* values; any other value is a string that is not such a text.            *)

\* The key prefix RedisCache::connect gives: "rapina:".
DEFAULT_PREFIX == <<"r", "a", "p", "i", "n", "a", ":">>

\* RedisCache::prefixed_key
prefixed_key(key) == DEFAULT_PREFIX \o key

\* impl From<&CachedResponse> for StoredResponse
StoredResponse(r) == [status |-> r.status, headers |-> r.headers, body |-> r.body]

\* impl From<StoredResponse> for CachedResponse
CachedResponse(s) == [status |-> s.status, headers |-> s.headers, body |-> s.body]

\* serde_json::to_string(&stored): it cannot fail on a status, string pairs
\* and bytes, so the Err arm of RedisCache::set is never taken.
to_string(stored) ==
    <<"status", stored.status, "headers", stored.headers, "body", stored.body>>

\* serde_json::from_str::<StoredResponse>(data)
from_str(data) ==
    IF /\ Len(data) = 6
       /\ data[1] = "status" /\ data[3] = "headers" /\ data[5] = "body"
    THEN Some([status |-> data[2], headers |-> data[4], body |-> data[6]])
    ELSE None

\* Values that are not the JSON text of a StoredResponse: no JSON, and the
\* JSON of an object without the headers and the body.
Unparsable == {<<"x">>, <<"status", 200>>}

\* What a command sent over the connection comes back with: a transport or
\* protocol error, or the server's reply.
Err == [tag |-> "err"]
Ok(v) == [tag |-> "ok", val |-> v]

\* The server's GET: the value of a key that is there and has not expired.
GET(st, k, t) ==
    IF k \in DOMAIN st /\ (st[k].exp = None \/ st[k].exp.val > t)
    THEN Some(st[k].val) ELSE None

\* The server's SETEX, which refuses an expiry of zero seconds.
SETEX(st, k, secs, v, t) ==
    [x \in DOMAIN st \cup {k} |->
       IF x = k THEN [val |-> v, exp |-> Some(t + secs)] ELSE st[x]]

\* The server's DEL
DEL(st, keys) == [x \in DOMAIN st \ keys |-> st[x]]

\* Mutant: a stored value that does not parse is served as an empty response.
redis_get_lenient(reply) ==
    IF reply.tag = "err" THEN None
    ELSE IF reply.val = None THEN None
    ELSE LET stored == from_str(reply.val.val) IN
         IF stored = None
         THEN Some([status |-> 200, headers |-> <<>>, body |-> ""])
         ELSE Some(CachedResponse(stored.val))

\* RedisCache::get, given what conn.get came back with.
redis_get(reply) ==
    IF reply.tag = "err" THEN None
    ELSE IF reply.val = None THEN None
    ELSE LET stored == from_str(reply.val.val) IN
         IF stored = None THEN None
         ELSE Some(CachedResponse(stored.val))

\* RedisCache::set: the store after conn.set_ex came back with reply.  The
\* call returns nothing either way.
redis_set(st, key, response, ttl, reply, t) ==
    IF reply.tag = "ok"
    THEN SETEX(st, prefixed_key(key), ttl, to_string(StoredResponse(response)), t)
    ELSE st

\* The replies conn.set_ex can come back with.
SetReplies(ttl) == IF ttl = 0 THEN {Err} ELSE {Ok("OK"), Err}

----------------------------------------------------------------------------
(* The external-store specification: CacheMiddleware::handle over a        *)
(* RedisCache, as the future it is.  A request's future suspends at        *)
(* backend.get, at next.run, at body.collect, at backend.set and, inside   *)
(* invalidate_prefix, at SCAN and at DEL; each action below runs it from   *)
(* one suspension point to the next.  A future dropped while suspended     *)
(* runs no further.  The requests have no query string, and the body the   *)
(* handler returns names the request it answered.                          *)

Rids == {"r1", "r2"}

AsyncMethods == {"GET", "DELETE"}

AsyncPaths == {<<"/", "u">>, <<"/", "u", "/", "1">>}

\* What the handler answers, but for the body: a marker of two seconds, no
\* marker, a marker of zero seconds.
AsyncResponses ==
    {[status |-> 200,
      headers |-> <<<<"content-type", <<"j">>>>, <<CACHE_TTL_HEADER, <<"2">>>>>>],
     [status |-> 200, headers |-> <<>>],
     [status |-> 404, headers |-> <<<<CACHE_TTL_HEADER, <<"0">>>>>>]}

\* A future not yet created.  got is what backend.get met ("err": the
\* command failed, "nil": no value, "bad": a value that does not parse,
\* "hit"), wrote what backend.set met, at the suspension point the future
\* was dropped at, runs how often it called next.run, inv how
\* invalidate_prefix ended ("scan": SCAN failed, "del": DEL failed, "ok"),
\* seen the store as it was when SCAN was answered with keys.
Fresh ==
    [pc |-> "idle", method |-> "", path |-> <<>>, key |-> <<>>, got |-> "none",
     hresp |-> None, ttl |-> 0, wrote |-> "none", keys |-> {}, resp |-> None,
     at |-> "none", runs |-> 0, inv |-> "none", seen |-> EmptyMap]

\* The store a RedisCache connects to: empty, or with a value under the
\* key of GET /u that no RedisCache::set wrote.
InitRedis ==
    /\ RouterIdle
    /\ ProcsIdle
    /\ SweepIdle
    /\ PgIdle
    /\ TwinIdle
    /\ entries = EmptyMap
    /\ op_count = 0
    /\ max_entries = 1
    /\ now = 0
    /\ last = NoOp
    /\ watch = None
    /\ order = <<>>
    /\ mw = IdleMw
    /\ handler_calls = 0
    /\ kpath = <<>>
    /\ kquery = <<>>
    /\ kkey = None
    /\ store \in {EmptyMap} \cup
                 {[k \in {prefixed_key(GET_ \o <<"/", "u">>)} |->
                     [val |-> v, exp |-> None]] : v \in Unparsable}
    /\ futs = [r \in Rids |-> Fresh]

RedisRest == <<entries, op_count, max_entries, gvars, mvars, kvars, rvars, cvars,
              svars, pg, twin>>

\* Mutant: a body that could not be collected is answered 200.
collect_failed_ok == [status |-> 200, headers |-> <<>>, body |-> ""]

\* The 500 response of a body that could not be collected.
collect_failed == [status |-> 500, headers |-> <<>>, body |-> ""]

\* handle up to its first suspension point: backend.get for a GET, next.run
\* for any other method.
Arrive(r) ==
    /\ futs[r].pc = "idle"
    /\ \E method \in AsyncMethods, path \in AsyncPaths :
         futs' = [futs EXCEPT ![r] =
                    [Fresh EXCEPT
                       !.pc = IF is_get(method) THEN "get" ELSE "next.run",
                       !.runs = IF is_get(method) THEN 0 ELSE 1,
                       !.method = method,
                       !.path = path,
                       !.key = IF is_get(method)
                               THEN build_cache_key(path, <<>>) ELSE <<>>]]
    /\ UNCHANGED <<store, now, RedisRest>>

\* Mutant: the rest of the chain is run after a hit as well.
after_get_always_runs(cached) == "next.run"

\* Where handle goes once backend.get has returned: a hit returns, a miss
\* calls next.run.
after_get(cached) == IF cached # None THEN "done" ELSE "next.run"

\* backend.get returns: a hit is answered, a miss runs the rest of the chain.
GetReply(r) ==
    /\ futs[r].pc = "get"
    /\ \E reply \in {Err, Ok(GET(store, prefixed_key(futs[r].key), now))} :
         LET cached == redis_get(reply)
             got == IF reply.tag = "err" THEN "err"
                    ELSE IF reply.val = None THEN "nil"
                    ELSE IF from_str(reply.val.val) = None THEN "bad"
                    ELSE "hit"
         IN futs' = [futs EXCEPT
                       ![r].got = got,
                       ![r].pc = after_get(cached),
                       ![r].runs = IF after_get(cached) = "next.run"
                                   THEN futs[r].runs + 1 ELSE futs[r].runs,
                       ![r].resp = IF cached # None
                                   THEN Some(build_response_from_cache(cached.val, HIT))
                                   ELSE None]
    /\ UNCHANGED <<store, now, RedisRest>>

\* next.run returns the handler's response.
HandlerReturns(r) ==
    /\ futs[r].pc = "next.run"
    /\ \E h \in AsyncResponses :
         LET response == [status |-> h.status, headers |-> h.headers, body |-> r]
             ttl == extract_ttl_header(response.headers)
             stays == IF is_get(futs[r].method)
                      THEN IF ttl # None THEN "collect" ELSE "done"
                      ELSE IF is_mutation(futs[r].method) /\ is_success(response.status)
                           THEN "scan" ELSE "done"
         IN futs' = [futs EXCEPT
                       ![r].hresp = Some(response),
                       ![r].ttl = IF is_get(futs[r].method) /\ ttl # None
                                  THEN ttl.val ELSE 0,
                       ![r].pc = stays,
                       ![r].resp = IF stays = "done" THEN Some(response) ELSE None]
    /\ UNCHANGED <<store, now, RedisRest>>

\* body.collect returns: the body, and backend.set is called, or an error,
\* and the 500 response is returned.
Collected(r) ==
    /\ futs[r].pc = "collect"
    /\ \E ok \in BOOLEAN :
         futs' = [futs EXCEPT
                    ![r].pc = IF ok THEN "set" ELSE "done",
                    ![r].resp = IF ok THEN None ELSE Some(collect_failed)]
    /\ UNCHANGED <<store, now, RedisRest>>

\* backend.set returns, and the response goes back with x-cache: MISS.
SetReply(r) ==
    /\ futs[r].pc = "set"
    /\ \E reply \in SetReplies(futs[r].ttl) :
         /\ store' = redis_set(store, futs[r].key, cached_response(futs[r].hresp.val),
                               futs[r].ttl, reply, now)
         /\ futs' = [futs EXCEPT
                       ![r].wrote = reply.tag,
                       ![r].pc = "done",
                       ![r].resp = Some(miss_response(futs[r].hresp.val))]
    /\ UNCHANGED <<now, RedisRest>>

\* The keys the store holds at t that match the pattern of
\* invalidate_prefix.
Matching(st, prefix, t) ==
    {k \in DOMAIN st : /\ st[k].exp = None \/ st[k].exp.val > t
                       /\ StartsWith(k, DEFAULT_PREFIX \o prefix)}

\* invalidate_prefix, SCAN returns: an error or a reply of another shape,
\* or keys that match, which one call need not give all of.
ScanReply(r) ==
    /\ futs[r].pc = "scan"
    /\ \E reply \in {Err} \cup
                    {Ok(keys) : keys \in SUBSET Matching(store,
                                     build_invalidation_prefix(futs[r].path), now)} :
         LET ends == reply.tag = "err" \/ reply.val = {} IN
         futs' = [futs EXCEPT
                    ![r].keys = IF ends THEN {} ELSE reply.val,
                    ![r].seen = IF ends THEN EmptyMap ELSE store,
                    ![r].inv = IF reply.tag = "err" THEN "scan"
                               ELSE IF ends THEN "ok" ELSE "none",
                    ![r].pc = IF ends THEN "done" ELSE "del",
                    ![r].resp = IF ends THEN futs[r].hresp ELSE None]
    /\ UNCHANGED <<store, now, RedisRest>>

\* invalidate_prefix, DEL returns.
DelReply(r) ==
    /\ futs[r].pc = "del"
    /\ \E reply \in {Ok("OK"), Err} :
         /\ store' = IF reply.tag = "ok" THEN DEL(store, futs[r].keys) ELSE store
         /\ futs' = [futs EXCEPT
                       ![r].pc = "done",
                       ![r].inv = IF reply.tag = "ok" THEN "ok" ELSE "del",
                       ![r].resp = futs[r].hresp]
    /\ UNCHANGED <<now, RedisRest>>

Suspended == {"get", "next.run", "collect", "set", "scan", "del"}

\* The request is cancelled: its future is dropped where it is suspended,
\* the futures it awaits with it.  A command already sent to the store may
\* still be carried out.
Cancel(r) ==
    /\ futs[r].pc \in Suspended
    /\ futs' = [futs EXCEPT ![r].pc = "dropped", ![r].at = futs[r].pc]
    /\ store' \in
         IF futs[r].pc = "set"
         THEN {store} \cup
              {redis_set(store, futs[r].key, cached_response(futs[r].hresp.val),
                         futs[r].ttl, reply, now) : reply \in SetReplies(futs[r].ttl)}
         ELSE IF futs[r].pc = "del"
         THEN {store, DEL(store, futs[r].keys)}
         ELSE {store}
    /\ UNCHANGED <<now, RedisRest>>

TickRedis ==
    /\ now < MaxTime
    /\ now' = now + 1
    /\ UNCHANGED <<store, futs, RedisRest>>

\* What the executor and the peers of a live future do in the end: the
\* store and the handler answer, and the future is polled.
Progress(r) ==
    \/ GetReply(r)
    \/ HandlerReturns(r)
    \/ Collected(r)
    \/ SetReply(r)
    \/ ScanReply(r)
    \/ DelReply(r)

NextRedis ==
    \/ \E r \in Rids : Arrive(r)
    \/ \E r \in Rids : GetReply(r)
    \/ \E r \in Rids : HandlerReturns(r)
    \/ \E r \in Rids : Collected(r)
    \/ \E r \in Rids : SetReply(r)
    \/ \E r \in Rids : ScanReply(r)
    \/ \E r \in Rids : DelReply(r)
    \/ \E r \in Rids : Cancel(r)
    \/ TickRedis

SpecRedis == InitRedis /\ [][NextRedis]_vars

\* The same with every live future making progress.
SpecRedisFair == SpecRedis /\ \A r \in Rids : WF_vars(Progress(r))

----------------------------------------------------------------------------
(* Claims on the external store *)

\* backend.get of r returns in this step, having failed.
GetFails(r) ==
    /\ futs[r].pc = "get"
    /\ futs'[r].got \in {"err", "bad"}

\* backend.set of r returns in this step, having failed.
SetFails(r) ==
    /\ futs[r].pc = "set"
    /\ futs'[r].wrote = "err"

\* The GET request r is answered in this step, after its backend.get or its
\* backend.set failed.
AnsweredDespiteFailure(r) ==
    /\ futs[r].pc \in Suspended
    /\ futs'[r].pc = "done"
    /\ futs'[r].method = "GET"
    /\ futs'[r].got \in {"err", "bad"} \/ futs'[r].wrote = "err"

\* A failed get is a miss (the rest of the chain is run next, nothing is
\* answered yet, the store is as it was) and a failed set leaves the store
\* as it was and the request answered: neither returns an error.
BackendFailsOpen(r) ==
    /\ GetFails(r) =>
         /\ futs'[r].pc = "next.run"
         /\ futs'[r].resp = None
         /\ store' = store
    /\ SetFails(r) =>
         /\ futs'[r].pc = "done"
         /\ futs'[r].resp # None
         /\ store' = store

\* The response of r has the status and the body the handler gave.
HandlersAnswer(r) ==
    /\ futs'[r].hresp # None
    /\ futs'[r].resp # None
    /\ futs'[r].resp.val.status = futs'[r].hresp.val.status
    /\ futs'[r].resp.val.body = futs'[r].hresp.val.body

CancelledWhileCollecting(r) ==
    /\ futs[r].pc = "dropped"
    /\ futs[r].at = "collect"
    /\ futs[r].method = "GET"
    /\ futs[r].hresp # None
    /\ futs[r].ttl > 0

\* The store holds, under the key of r, the response of r's handler.
StoredFor(r) ==
    /\ futs[r].hresp # None
    /\ prefixed_key(futs[r].key) \in DOMAIN store
    /\ store[prefixed_key(futs[r].key)].val =
         to_string(StoredResponse(cached_response(futs[r].hresp.val)))

\* C20: a GET request cancelled after its miss, while the body of the
\* handler's cacheable response is collected, still has that response
\* stored under its key in the end.
C20_CancelKeepsWrite ==
    \A r \in Rids : CancelledWhileCollecting(r) ~> StoredFor(r)

----------------------------------------------------------------------------
(* The error-status specification: requests as in SpecMw, the handler      *)
(* answering a marked 404, a marked 200 or an unmarked 500.                *)

ErrMethods == {"GET", "POST"}

ErrResponses ==
    {[status |-> 404, headers |-> <<<<CACHE_TTL_HEADER, <<"2">>>>>>],
     [status |-> 200, headers |-> <<<<CACHE_TTL_HEADER, <<"2">>>>>>],
     [status |-> 500, headers |-> <<>>]}

RequestErr ==
    /\ mw.n < MaxRequests
    /\ Serve(ErrMethods, Targets, ErrResponses)

NextErr == RequestErr \/ TickMw

SpecErr == InitMw /\ [][NextErr]_vars

\* C21: a request stores an entry only when it is a GET miss whose handler
\* response carries the TTL marker and has a 2xx status, and a response
\* served as a HIT has a 2xx status: a marked response of another status is
\* never stored and never served later.
C21_OnlySuccessStored ==
    [][IsRequest =>
         /\ (\E i \in 1..Len(mw'.calls) : mw'.calls[i] = "set") =>
              /\ mw'.method = "GET"
              /\ MarkerSeconds(mw'.hresp.val) # None
              /\ 200 <= mw'.hresp.val.status /\ mw'.hresp.val.status < 300
         /\ mw'.calls = <<"get">> =>
              200 <= mw'.resp.status /\ mw'.resp.status < 300]_vars

\* The request r is answered in this step.
Answered(r) ==
    /\ futs[r].pc \in Suspended
    /\ futs'[r].pc = "done"

\* C22: a request whose marked GET response's body cannot be collected is
\* answered 500 with no set performed and the store as it was; every other
\* request is answered with the handler's status, or on a hit with the
\* status stored, whatever the store's commands came back with.
C22_Only500OnCollect ==
    [][\A r \in Rids :
         Answered(r) =>
           IF futs[r].pc = "collect"
           THEN /\ futs[r].method = "GET"
                /\ extract_ttl_header(futs[r].hresp.val.headers) # None
                /\ futs'[r].resp.val.status = 500
                /\ futs'[r].wrote = "none"
                /\ store' = store
           ELSE IF futs[r].pc = "get"
           THEN futs'[r].resp.val.status =
                  from_str(store[prefixed_key(futs[r].key)].val).val.status
           ELSE futs'[r].resp.val.status = futs'[r].hresp.val.status]_vars

\* r1, a GET whose handler answered 200 with the marker, was answered 500
\* after its body could not be collected, and nothing is stored; r2, whose
\* get failed and whose set failed, was answered with its handler's 200.
C22_Witness ==
    /\ futs["r1"].pc = "done"
    /\ futs["r1"].hresp # None
    /\ futs["r1"].hresp.val.status = 200
    /\ futs["r1"].resp = Some([status |-> 500, headers |-> <<>>, body |-> ""])
    /\ futs["r2"].pc = "done"
    /\ futs["r2"].got = "err"
    /\ futs["r2"].wrote = "err"
    /\ futs["r2"].resp.val.status = 200
    /\ store = EmptyMap

\* C23: no request calls next.run more than once, and a request that was
\* answered called it not at all when it was a GET hit and once otherwise
\* (a miss with or without the marker, a body that could not be collected,
\* a mutation).
C23_SingleUse ==
    \A r \in Rids :
      /\ futs[r].runs <= 1
      /\ futs[r].pc = "done" =>
           futs[r].runs = IF futs[r].method = "GET" /\ futs[r].got = "hit"
                          THEN 0 ELSE 1

\* r1 was answered from the store without next.run; r2, whose response
\* was stored, called next.run once.
C23_Witness ==
    /\ futs["r1"].pc = "done"
    /\ futs["r1"].got = "hit"
    /\ futs["r1"].runs = 0
    /\ header_get(futs["r1"].resp.val.headers, CACHE_STATUS_HEADER) = Some(HIT)
    /\ futs["r2"].pc = "done"
    /\ futs["r2"].wrote = "ok"
    /\ futs["r2"].runs = 1

----------------------------------------------------------------------------
(* The sweep specification: threads that call get and set of one          *)
(* InMemoryCache, each thread one call after another.  A call is           *)
(* op_count.fetch_add, then the sweep when it is due, then the rest of     *)
(* the call.  The clock stands still: an entry set for no time is expired  *)
(* at once.  sweeps lists the sweeps in the order they ran, each with the  *)
(* count its call read and the calls counted by the time it ran.           *)

Threads == {"t1", "t2"}

\* The key the calls are for, and a key holding an unexpired entry.
SweepKey == GET_ \o <<"/", "u">>
LiveKey == GET_ \o <<"/", "p">>

SweepResponse == CHOOSE r \in Responses : r.status = 200

Resting == [pc |-> "idle", op |-> "none", count |-> 0]

\* The calls counted up to which the threads are followed: two intervals
\* and MaxOps more.
LastCount == 2 * CLEANUP_INTERVAL + MaxOps

InitSweep ==
    /\ RouterIdle
    /\ ProcsIdle
    /\ AsyncIdle
    /\ PgIdle
    /\ TwinIdle
    /\ entries = MapInsert(EmptyMap, LiveKey, CacheEntry(SweepResponse, 0, 2))
    /\ op_count = 0
    /\ max_entries = MaxCap
    /\ now = 0
    /\ last = NoOp
    /\ watch = None
    /\ order = <<>>
    /\ mw = IdleMw
    /\ handler_calls = 0
    /\ kpath = <<>>
    /\ kquery = <<>>
    /\ kkey = None
    /\ ws = [t \in Threads |-> Resting]
    /\ sweeps = <<>>
    /\ overlap = FALSE

SweepRest == <<max_entries, now, gvars, mvars, kvars, rvars, cvars, avars, pg, twin>>

\* maybe_cleanup: op_count.fetch_add(1) and the test of the count it
\* returned.  A thread whose sweep is due runs it before MaxOps more calls
\* are counted.
CountCall(t) ==
    /\ ws[t].pc = "idle"
    /\ op_count < LastCount
    /\ \A u \in Threads : ws[u].pc = "sweep" => op_count - ws[u].count <= MaxOps
    /\ \E op \in {"get", "set"} :
         ws' = [ws EXCEPT ![t] =
                  [pc |-> IF sweep_due(op_count) THEN "sweep" ELSE "rest",
                   op |-> op,
                   count |-> IF sweep_due(op_count) THEN op_count ELSE 0]]
    /\ op_count' = op_count + 1
    /\ overlap' = (overlap \/ \E u \in Threads \ {t} : ws[u].pc # "idle")
    /\ UNCHANGED <<entries, sweeps, SweepRest>>

\* maybe_cleanup: cleanup_expired
RunSweep(t) ==
    /\ ws[t].pc = "sweep"
    /\ entries' = cleanup_expired(entries, now)
    /\ sweeps' = Append(sweeps, [count |-> ws[t].count, at |-> op_count])
    /\ ws' = [ws EXCEPT ![t].pc = "rest", ![t].count = 0]
    /\ UNCHANGED <<op_count, overlap, SweepRest>>

\* The rest of get (the lookup and the lazy removal) or of set (evict_if_full
\* and the insert, for no time).
Rest(t) ==
    /\ ws[t].pc = "rest"
    /\ IF ws[t].op = "get"
       THEN entries' = get_remove(entries, SweepKey,
                                  get_lookup(entries, SweepKey, now), now)
       ELSE \E m \in evict_if_full(entries, max_entries, now) :
              entries' = MapInsert(m, SweepKey, CacheEntry(SweepResponse, now, 0))
    /\ ws' = [ws EXCEPT ![t] = Resting]
    /\ UNCHANGED <<op_count, sweeps, overlap, SweepRest>>

NextSweep ==
    \/ \E t \in Threads : CountCall(t)
    \/ \E t \in Threads : RunSweep(t)
    \/ \E t \in Threads : Rest(t)

SpecSweep == InitSweep /\ [][NextSweep]_vars

\* The counts below n at which a sweep is due.
DueBelow(n) ==
    {k * CLEANUP_INTERVAL : k \in 1..((n - 1) \div CLEANUP_INTERVAL)}

\* The calls whose sweep ran or is about to run, by the count they read.
SweptAt(c) == {i \in 1..Len(sweeps) : sweeps[i].count = c}
SweepingAt(c) == {t \in Threads : ws[t].pc = "sweep" /\ ws[t].count = c}

\* C24: every get and set is counted once; the sweep is run by exactly the
\* calls that read a positive multiple of 1000 from the counter, one call
\* for each multiple and so one per 1000 calls counted, whatever the
\* interleaving; and when no two calls overlap the k-th sweep runs within
\* the call counted as number 1000 k + 1.
C24_SweepExact ==
    /\ \A i \in 1..Len(sweeps) :
         /\ sweeps[i].count \in DueBelow(op_count)
         /\ sweeps[i].at > sweeps[i].count
    /\ \A t \in Threads :
         ws[t].pc = "sweep" => ws[t].count \in DueBelow(op_count)
    /\ \A c \in DueBelow(op_count) :
         Cardinality(SweptAt(c)) + Cardinality(SweepingAt(c)) = 1
    /\ ~overlap =>
         \A i \in 1..Len(sweeps) :
           /\ sweeps[i].count = i * CLEANUP_INTERVAL
           /\ sweeps[i].at = i * CLEANUP_INTERVAL + 1

\* Two sweeps ran, by the calls that read 1000 and 2000, while calls
\* overlapped; the expired entry is gone and the unexpired one is there.
C24_Witness ==
    /\ overlap
    /\ Len(sweeps) = 2
    /\ sweeps[1].count = CLEANUP_INTERVAL
    /\ sweeps[2].count = 2 * CLEANUP_INTERVAL
    /\ sweeps[2].at = 2 * CLEANUP_INTERVAL + 1
    /\ \A t \in Threads : ws[t].pc = "rest"
    /\ DOMAIN entries = {LiveKey}

----------------------------------------------------------------------------
(* Claims on single calls of the in-memory backend *)

\* The step is a get for the key.
IsGet(key) ==
    /\ op_count' = op_count + 1
    /\ last'.op = "get"
    /\ last'.key = key

\* C25: a get for a key that has no entry returns nothing and leaves the
\* stored entries, each with its response, creation time and expiry, as
\* they were, whatever the operation counter is; only the counter grows.
C25_CleanMissFrame ==
    [][\A key \in Keys :
         IsGet(key) /\ key \notin DOMAIN entries =>
           /\ last'.result = None
           /\ entries' = entries]_vars

\* invalidate_prefix of r completes in this step, no command having failed
\* and the store not written since its SCAN was answered.
InvalidateCompletes(r) ==
    /\ futs[r].pc \in {"scan", "del"}
    /\ futs'[r].pc = "done"
    /\ futs'[r].inv = "ok"
    /\ futs[r].pc = "del" => store = futs[r].seen

\* C26: when invalidate_prefix(P) on the external store completes without
\* a failed command, no key "rapina:" + K with K starting with P is left in
\* the store, and every other key is left with its value.
C26_InvalidationComplete ==
    [][\A r \in Rids :
         InvalidateCompletes(r) =>
           LET P == build_invalidation_prefix(futs[r].path) IN
           /\ Matching(store', P, now) = {}
           /\ \A k \in DOMAIN store :
                ~StartsWith(k, DEFAULT_PREFIX \o P) =>
                  k \in DOMAIN store' /\ store'[k] = store[k]]_vars

----------------------------------------------------------------------------
(* Pagination (rapina/src/pagination.rs) *)

MaxPage == 2
MaxPerPage == 3

DEFAULT_PER_PAGE == 20
DEFAULT_MAX_PER_PAGE == 100

\* A Result that is an error.
Failed(e) == [tag |-> "err", err |-> e]

\* Error::validation: the 422 error with the message.
validation(message) == [status |-> 422, message |-> message]

\* serde_urlencoded::from_str::<PaginateQuery>: each of page and per_page
\* is None when the query string does not have it and the u64 its value
\* parses to when it has; a value that does not parse is an error.
paginate_query(query) ==
    LET page == IF query.page = None THEN Some(None)
                ELSE IF parse_u64(query.page.val) = None THEN None
                ELSE Some(parse_u64(query.page.val))
        per_page == IF query.per_page = None THEN Some(None)
                    ELSE IF parse_u64(query.per_page.val) = None THEN None
                    ELSE Some(parse_u64(query.per_page.val))
    IN IF page = None \/ per_page = None
       THEN Failed("invalid digit")
       ELSE Ok([page |-> page.val, per_page |-> per_page.val])

\* Mutant: per_page is not held against the maximum.
from_request_parts_no_max(query, config) ==
    LET raw == paginate_query(query) IN
    IF raw.tag = "err"
    THEN Failed(validation(<<"invalid pagination params: ", raw.err>>))
    ELSE LET default_per_page == IF config = None THEN DEFAULT_PER_PAGE
                                 ELSE config.val.default_per_page
             page == IF raw.val.page = None THEN 1 ELSE raw.val.page.val
             per_page == IF raw.val.per_page = None THEN default_per_page
                         ELSE raw.val.per_page.val
         IN IF page < 1 THEN Failed(validation(<<"page must be >= 1">>))
            ELSE IF per_page < 1 THEN Failed(validation(<<"per_page must be >= 1">>))
            ELSE Ok([page |-> page, per_page |-> per_page])

\* Paginate::from_request_parts, given the query string's page and per_page
\* and the PaginationConfig of the state, if one is registered.
from_request_parts(query, config) ==
    LET raw == paginate_query(query) IN
    IF raw.tag = "err"
    THEN Failed(validation(<<"invalid pagination params: ", raw.err>>))
    ELSE LET default_per_page == IF config = None THEN DEFAULT_PER_PAGE
                                 ELSE config.val.default_per_page
             max_per_page == IF config = None THEN DEFAULT_MAX_PER_PAGE
                             ELSE config.val.max_per_page
             page == IF raw.val.page = None THEN 1 ELSE raw.val.page.val
             per_page == IF raw.val.per_page = None THEN default_per_page
                         ELSE raw.val.per_page.val
         IN IF page < 1 THEN Failed(validation(<<"page must be >= 1">>))
            ELSE IF per_page < 1 THEN Failed(validation(<<"per_page must be >= 1">>))
            ELSE IF per_page > max_per_page
            THEN Failed(validation(<<"per_page must be <= ", max_per_page>>))
            ELSE Ok([page |-> page, per_page |-> per_page])

----------------------------------------------------------------------------
(* The extractor specification: one request through                        *)
(* Paginate::from_request_parts.  A parameter of the query string is given *)
(* as its text beside what the text says: nothing when it is absent, a     *)
(* number, or no number.                                                   *)

DigitChars == <<"0", "1", "2", "3", "4", "5", "6", "7", "8", "9">>

\* The decimal text of a number.
RECURSIVE Decimal(_)
Decimal(n) ==
    IF n < 10 THEN <<DigitChars[n + 1]>>
    ELSE Decimal(n \div 10) \o <<DigitChars[(n % 10) + 1]>>

Absent == [text |-> None, kind |-> "absent"]
Number(n) == [text |-> Some(Decimal(n)), kind |-> "number", n |-> n]
NoNumber(text) == [text |-> Some(text), kind |-> "no number"]

PageParams ==
    {Absent} \cup {Number(n) : n \in 0..MaxPage}
             \cup {[text |-> Some(<<"+", "1">>), kind |-> "number", n |-> 1]}
             \cup {NoNumber(<<"x">>), NoNumber(<<>>), NoNumber(<<"-", "1">>)}

PerPageParams ==
    {Absent} \cup {Number(n) : n \in 0..(MaxPerPage + 1)}
             \cup {Number(DEFAULT_PER_PAGE), Number(DEFAULT_MAX_PER_PAGE),
                   Number(DEFAULT_MAX_PER_PAGE + 1)}
             \cup {NoNumber(<<"1", "x">>)}

\* No PaginationConfig registered, one as an application gives it, and one
\* whose default is above its maximum.
Configs ==
    {None,
     Some([default_per_page |-> 2, max_per_page |-> MaxPerPage]),
     Some([default_per_page |-> MaxPerPage + 1, max_per_page |-> MaxPerPage])}

InitPaginate ==
    /\ RouterIdle
    /\ ProcsIdle
    /\ AsyncIdle
    /\ SweepIdle
    /\ TwinIdle
    /\ entries = EmptyMap
    /\ op_count = 0
    /\ max_entries = 1
    /\ now = 0
    /\ last = NoOp
    /\ watch = None
    /\ order = <<>>
    /\ mw = IdleMw
    /\ handler_calls = 0
    /\ kpath = <<>>
    /\ kquery = <<>>
    /\ kkey = None
    /\ \E page \in PageParams, per_page \in PerPageParams, config \in Configs :
         pg = [stage |-> "request", page |-> page, per_page |-> per_page,
               config |-> config]

PgRest == <<entries, op_count, max_entries, now, gvars, mvars, kvars, rvars, cvars,
            avars, svars, twin>>

Extract ==
    /\ pg.stage = "request"
    /\ pg' = [stage |-> "extracted", page |-> pg.page, per_page |-> pg.per_page,
              config |-> pg.config,
              result |-> from_request_parts([page |-> pg.page.text,
                                             per_page |-> pg.per_page.text],
                                            pg.config)]
    /\ UNCHANGED PgRest

NextPaginate == Extract

SpecPaginate == InitPaginate /\ [][NextPaginate]_vars

\* What the request asks for: the page and the page size its parameters
\* say, those of the defaults where it has none.
AskedPage == IF pg.page.kind = "absent" THEN 1 ELSE pg.page.n
AskedPerPage ==
    IF pg.per_page.kind # "absent" THEN pg.per_page.n
    ELSE IF pg.config = None THEN 20 ELSE pg.config.val.default_per_page
AllowedPerPage == IF pg.config = None THEN 100 ELSE pg.config.val.max_per_page

\* C27: the extractor fails with a 422 error when a parameter is no number,
\* when the page is 0 (the message then being "page must be >= 1"), when
\* the page size is 0 or above the configured maximum; otherwise it
\* succeeds with the page and page size asked for, an omitted page being 1
\* and an omitted page size the configured default (20 of at most 100 with
\* no configuration).
C27_PaginateValidation ==
    pg.stage = "extracted" =>
      IF pg.page.kind = "no number" \/ pg.per_page.kind = "no number"
      THEN pg.result.tag = "err" /\ pg.result.err.status = 422
      ELSE IF AskedPage = 0
      THEN /\ pg.result.tag = "err"
           /\ pg.result.err.status = 422
           /\ pg.result.err.message = <<"page must be >= 1">>
      ELSE IF AskedPerPage = 0 \/ AskedPerPage > AllowedPerPage
      THEN pg.result.tag = "err" /\ pg.result.err.status = 422
      ELSE pg.result = Ok([page |-> AskedPage, per_page |-> AskedPerPage])

\* page=0 was refused with 422 and the message of the claim.
C27_Witness ==
    /\ pg.stage = "extracted"
    /\ pg.page.text = Some(<<"0">>)
    /\ pg.per_page.kind = "absent"
    /\ pg.config = None
    /\ pg.result = Failed([status |-> 422, message |-> <<"page must be >= 1">>])

----------------------------------------------------------------------------
(* The exec specification: one Paginate::exec and a Paginated::map of its  *)
(* result.  Paginate's fields are public, so any page and page size can    *)
(* reach exec.  The table has the rows 1..total; the page fetch and the    *)
(* count are the two futures of tokio::join!, which complete in either     *)
(* order and may each fail.                                                *)

MaxTotal == 4

\* u64::div_ceil
\* Mutant: the division rounds down.
div_floor(a, b) == a \div b

div_ceil(a, b) == (a \div b) + (IF a % b # 0 THEN 1 ELSE 0)

\* self.page - 1 in u64: page 0 panics where overflow is checked and wraps
\* to u64::MAX where it is not.
page_index(page) ==
    IF page >= 1 THEN {[at |-> "index", n |-> page - 1]}
    ELSE {[at |-> "panic"], [at |-> "wrapped"]}

\* select.paginate(conn, per_page) of the database library: a page size of 0
\* is either taken as it is or refused with a panic, by the library's
\* version.
paginate(per_page) ==
    IF per_page = 0 THEN {"paginator", "panic"} ELSE {"paginator"}

Min(a, b) == IF a <= b THEN a ELSE b

\* The rows fetch_page gives for a page index: those of the page, none for
\* an index past the table.
fetch_page(index, per_page, total) ==
    IF index.at = "wrapped" THEN <<>>
    ELSE LET first == index.n * per_page + 1
             after == Min(total, (index.n + 1) * per_page)
         IN [i \in 1..(IF after >= first THEN after - first + 1 ELSE 0) |->
               first + i - 1]

\* The Paginated that exec builds of the items and the total.
Paginated(p, items, total) ==
    LET total_pages == IF p.per_page = 0 THEN 0 ELSE div_ceil(total, p.per_page) IN
    [data |-> items, page |-> p.page, per_page |-> p.per_page, total |-> total,
     total_pages |-> total_pages,
     has_prev |-> p.page > 1,
     has_next |-> p.page < total_pages]

\* Paginate::exec once both futures have completed.
exec(p, items_result, total_result) ==
    IF items_result.tag = "err" THEN Failed("DbError")
    ELSE IF total_result.tag = "err" THEN Failed("DbError")
    ELSE Ok(Paginated(p, items_result.val, total_result.val))

\* The function map is called with.
Mapped(x) == <<"f", x>>

\* Mutant: the mapped result is on its first page.
map_first_page(paginated) ==
    [paginated EXCEPT !.data = [i \in 1..Len(paginated.data) |->
                                  Mapped(paginated.data[i])],
                      !.page = 1, !.has_prev = FALSE]

\* Paginated::map
map(paginated) ==
    [data |-> [i \in 1..Len(paginated.data) |-> Mapped(paginated.data[i])],
     page |-> paginated.page,
     per_page |-> paginated.per_page,
     total |-> paginated.total,
     total_pages |-> paginated.total_pages,
     has_prev |-> paginated.has_prev,
     has_next |-> paginated.has_next]

Pending == [tag |-> "pending"]

InitExec ==
    /\ RouterIdle
    /\ ProcsIdle
    /\ AsyncIdle
    /\ SweepIdle
    /\ TwinIdle
    /\ entries = EmptyMap
    /\ op_count = 0
    /\ max_entries = 1
    /\ now = 0
    /\ last = NoOp
    /\ watch = None
    /\ order = <<>>
    /\ mw = IdleMw
    /\ handler_calls = 0
    /\ kpath = <<>>
    /\ kquery = <<>>
    /\ kkey = None
    /\ \E page \in 0..MaxPage, per_page \in 0..MaxPerPage, total \in 0..MaxTotal :
         pg = [stage |-> "called", p |-> [page |-> page, per_page |-> per_page],
               total |-> total]

\* exec up to tokio::join!: the page index is computed and both futures
\* are created.
ExecStart ==
    /\ pg.stage = "called"
    /\ \E made \in paginate(pg.p.per_page), index \in page_index(pg.p.page) :
         pg' = IF made = "panic" \/ index.at = "panic"
               THEN [stage |-> "panicked", p |-> pg.p, total |-> pg.total]
               ELSE [stage |-> "joining", p |-> pg.p, total |-> pg.total,
                     index |-> index, items |-> Pending, count |-> Pending,
                     first |-> "none"]
    /\ UNCHANGED PgRest

\* paginator.fetch_page completes.
FetchDone ==
    /\ pg.stage = "joining"
    /\ pg.items = Pending
    /\ \E r \in {Ok(fetch_page(pg.index, pg.p.per_page, pg.total)), Err} :
         pg' = [pg EXCEPT !.items = r,
                          !.first = IF pg.count = Pending THEN "items" ELSE @]
    /\ UNCHANGED PgRest

\* count_paginator.num_items completes.
CountDone ==
    /\ pg.stage = "joining"
    /\ pg.count = Pending
    /\ \E r \in {Ok(pg.total), Err} :
         pg' = [pg EXCEPT !.count = r,
                          !.first = IF pg.items = Pending THEN "count" ELSE @]
    /\ UNCHANGED PgRest

\* Mutant: the join returns as soon as one future has failed (try_join!).
joined_try(items, count) ==
    \/ items # Pending /\ count # Pending
    \/ items # Pending /\ items.tag = "err"
    \/ count # Pending /\ count.tag = "err"

\* tokio::join!(fetch, count) returns once both futures have completed,
\* whatever their results.
joined(items, count) == items # Pending /\ count # Pending

\* tokio::join! returns once both futures have completed, and exec
\* composes its result.
Compose ==
    /\ pg.stage = "joining"
    /\ joined(pg.items, pg.count)
    /\ pg' = [stage |-> "returned", p |-> pg.p, total |-> pg.total,
              items |-> pg.items, count |-> pg.count, first |-> pg.first,
              result |-> exec(pg.p, pg.items, pg.count)]
    /\ UNCHANGED PgRest

\* Paginated::map on the result of a successful exec.
Map ==
    /\ pg.stage = "returned"
    /\ pg.result.tag = "ok"
    /\ pg' = [stage |-> "mapped", p |-> pg.p, total |-> pg.total,
              items |-> pg.items, count |-> pg.count, first |-> pg.first,
              result |-> pg.result,
              mapped |-> map(pg.result.val)]
    /\ UNCHANGED PgRest

NextExec == ExecStart \/ FetchDone \/ CountDone \/ Compose \/ Map

SpecExec == InitExec /\ [][NextExec]_vars

\* The number of pages of per_page rows that hold total rows: the least n
\* with n * per_page >= total.
CeilPages(total, per_page) ==
    CHOOSE n \in 0..total :
      /\ n * per_page >= total
      /\ \A m \in 0..(n - 1) : m * per_page < total

\* C28: a result of exec has total_pages = ceil(total / per_page), or 0
\* when per_page is 0, has_prev = (page > 1) and has_next = (page <
\* total_pages), with the page, page size and total it was called with; and
\* map leaves all six as they are, mapping each item.
C28_PaginationMetadata ==
    /\ pg.stage \in {"returned", "mapped"} /\ pg.result.tag = "ok" =>
         LET r == pg.result.val IN
         /\ r.page = pg.p.page
         /\ r.per_page = pg.p.per_page
         /\ r.total = pg.total
         /\ r.total_pages = IF pg.p.per_page = 0 THEN 0
                            ELSE CeilPages(pg.total, pg.p.per_page)
         /\ r.has_prev = (pg.p.page > 1)
         /\ r.has_next = (pg.p.page < r.total_pages)
    /\ pg.stage = "mapped" =>
         LET r == pg.result.val
             m == pg.mapped
         IN /\ <<m.page, m.per_page, m.total, m.total_pages, m.has_prev, m.has_next>>
                 = <<r.page, r.per_page, r.total, r.total_pages, r.has_prev,
                     r.has_next>>
            /\ Len(m.data) = Len(r.data)
            /\ \A i \in 1..Len(r.data) : m.data[i] = <<"f", r.data[i]>>

\* Page 2 of 3 rows by 2: one item, two pages, a previous page and no next
\* one, before and after map.
C28_Witness ==
    /\ pg.stage = "mapped"
    /\ pg.p = [page |-> 2, per_page |-> 2]
    /\ pg.total = 3
    /\ pg.result.val.total_pages = 2
    /\ pg.result.val.has_prev
    /\ ~pg.result.val.has_next
    /\ pg.mapped.data = <<<<"f", 3>>>>
    /\ pg.mapped.total_pages = 2

----------------------------------------------------------------------------
(* Claims about overwriting and lazy removal *)

\* The step is the insert of p's set.
Inserts(p) == procs[p].pc = "insert" /\ procs'[p].pc = "done"

\* The whole entries the set calls have written for the contended key.
Written ==
    {procs[q].inserted.val : q \in {x \in Setters : procs[x].inserted # None}}

\* C29: a set on a key that already holds an entry replaces that entry in
\* one step.  In every state, under every interleaving, the key holds
\* nothing or the whole entry of one set; the insert of a set over an entry
\* leaves the response, creation time and expiry of that set, which a get
\* then returns while it is unexpired, changes no other key and does not
\* increase the number of entries.
C29_OverwriteOneStep ==
    /\ [](procs # EmptyMap /\ ConcKey \in DOMAIN entries =>
            entries[ConcKey] \in Written)
    /\ [][\A p \in DOMAIN procs :
            Inserts(p) /\ ConcKey \in DOMAIN entries =>
              /\ entries'[ConcKey] = [response   |-> procs[p].response,
                                      expires_at |-> now + procs[p].ttl,
                                      created_at |-> now]
              /\ entries'[ConcKey] \in Written'
              /\ backend_get(entries', op_count', ConcKey, now, now, now).result
                   = IF procs[p].ttl > 0 THEN Some(procs[p].response) ELSE None
              /\ MapLen(entries') = MapLen(entries)
              /\ \A k \in DOMAIN entries \ {ConcKey} :
                   k \in DOMAIN entries' /\ entries'[k] = entries[k]]_vars

\* The set of a passed the capacity test before b's insert and inserted
\* after it, over b's entry: the key holds a's entry, of a later creation
\* time, and the store still has its two entries.
C29_Witness ==
    /\ procs # EmptyMap
    /\ procs["a"].inserted # None
    /\ procs["b"].inserted # None
    /\ procs["b"].ttl = 2
    /\ procs["g"].pc = "start"
    /\ procs["i"].pc = "start"
    /\ applied = "a"
    /\ now = 1
    /\ op_count < CLEANUP_INTERVAL
    /\ DOMAIN entries = {ConcKey, OtherKey}
    /\ entries[ConcKey] = procs["a"].inserted.val
    /\ entries[ConcKey].response = procs["a"].response
    /\ entries[ConcKey].created_at = 1
    /\ procs["b"].inserted.val.created_at = 0

\* The clock readings a call made at time t may get.
Later(t) == t..(MaxTime + 1)

\* C30 (lazy cleanup): a get of K that finds an entry for K whose expiry is
\* at or before the current time returns nothing and leaves K absent, no
\* other call running; so it is for every pair of later clock readings of
\* the lookup and of the removal.
C30_LazyCleanup ==
    [][IsGetStep =>
        LET K == last'.key IN
        K \in DOMAIN entries /\ entries[K].expires_at <= now =>
          /\ last'.result = None
          /\ K \notin DOMAIN entries'
          /\ \A t2 \in Later(now) : \A t3 \in Later(t2) :
               LET g == backend_get(entries, op_count, K, now, t2, t3) IN
               g.result = None /\ K \notin DOMAIN g.entries]_vars

\* set(K, R, 2 s), two seconds pass, get(K): the entry expires at the
\* current time, the get returned nothing and the store is empty.
C30_Witness ==
    /\ last.op = "get"
    /\ last.result = None
    /\ watch # None
    /\ watch.val.key = last.key
    /\ watch.val.deadline = 2
    /\ now = 2
    /\ OpsDone = 2
    /\ op_count = 2
    /\ entries = EmptyMap

----------------------------------------------------------------------------
(* Claims about the two joined fetches of exec, checked under SpecExec *)

Completed(r) == r # Pending /\ r.tag \in {"ok", "err"}

\* C32: exec creates the page fetch and the count together and returns
\* only once both have completed, in whichever order; its result is a
\* Paginated, made of the items fetched and the total counted, exactly when
\* both succeeded, and the error DbError, with no Paginated, when either
\* failed.
C32_JoinBoth ==
    /\ pg.stage = "joining" =>
         /\ (pg.first = "none") <=> (pg.items = Pending /\ pg.count = Pending)
         /\ pg.first = "items" => Completed(pg.items)
         /\ pg.first = "count" => Completed(pg.count)
    /\ pg.stage \in {"returned", "mapped"} =>
         /\ Completed(pg.items)
         /\ Completed(pg.count)
         /\ pg.first \in {"items", "count"}
         /\ (pg.result.tag = "ok") <=> (pg.items.tag = "ok" /\ pg.count.tag = "ok")
         /\ pg.result.tag = "ok" =>
              /\ pg.result.val.data = pg.items.val
              /\ pg.result.val.total = pg.count.val
         /\ pg.result.tag # "ok" => pg.result = Failed("DbError")

\* The count completed first and failed, the page fetch completed after it
\* with its rows, and exec returned the error.
C32_Witness ==
    /\ pg.stage = "returned"
    /\ pg.first = "count"
    /\ pg.count.tag = "err"
    /\ pg.items.tag = "ok"
    /\ pg.items.val = <<3, 4>>
    /\ pg.result = Failed("DbError")

----------------------------------------------------------------------------
(* Claims about what a call removes, checked under Spec *)

\* C35: a set on a key K that is already present, in a store at capacity,
\* removes no unexpired entry of another key.
C35_OverwriteCostsNothing ==
    [][IsSetStep =>
        LET K == last'.key IN
        K \in DOMAIN entries /\ MapLen(entries) >= max_entries =>
          \A k \in DOMAIN entries \ {K} :
             entries[k].expires_at > now => k \in DOMAIN entries']_vars

----------------------------------------------------------------------------
(* Claims about the removals of get and of the sweep under concurrency,    *)
(* checked under SpecConc                                                  *)

\* The step is the remove_if of p's get.
Removes(p) == procs[p].pc = "remove_if" /\ procs'[p].pc = "done"

\* C37: the removal step of a get leaves an unexpired entry in place: when
\* the key holds an entry that is unexpired at that step, as after a set
\* replaced the expired entry the lookup saw, the entry is still there
\* afterwards and a get that follows returns its response.
C37_LazyRemovalKeepsFresh ==
    [][\A p \in DOMAIN procs :
         ( /\ Removes(p)
           /\ ConcKey \in DOMAIN entries
           /\ entries[ConcKey].expires_at > now ) =>
           /\ ConcKey \in DOMAIN entries'
           /\ entries'[ConcKey] = entries[ConcKey]
           /\ backend_get(entries', op_count', ConcKey, now, now, now).result
                = Some(entries[ConcKey].response)]_vars

\* The lookup of the get saw the expired entry of b, a's set replaced it
\* with an unexpired one before the removal step, and that entry is still
\* stored after the get returned.
C37_Witness ==
    /\ procs # EmptyMap
    /\ procs["g"].pc = "done"
    /\ procs["g"].result = None
    /\ procs["b"].inserted # None
    /\ procs["g"].seen = procs["b"].inserted
    /\ procs["b"].ttl = 0
    /\ procs["a"].inserted # None
    /\ procs["g"].found = procs["a"].inserted
    /\ procs["i"].pc = "start"
    /\ ConcKey \in DOMAIN entries
    /\ entries[ConcKey] = procs["a"].inserted.val
    /\ entries[ConcKey].expires_at > now

\* The steps of the calls: the sweep of maybe_cleanup or of evict_if_full,
\* the eviction, the insert and the retain of invalidate_prefix.
Sweeps(p) ==
    \/ procs[p].pc = "sweep" /\ procs'[p].pc \in {"read", "len1"}
    \/ procs[p].pc = "cleanup" /\ procs'[p].pc = "len2"
Evicts(p) == procs[p].pc = "evict" /\ procs'[p].pc = "insert"
Retains(p) ==
    procs[p].op = "invalidate_prefix" /\ procs[p].pc = "start" /\ procs'[p].pc = "done"

Unexpired(m, t) == {k \in DOMAIN m : m[k].expires_at > t}

\* C38: an unexpired entry leaves the store, or changes, only in a step
\* that is a capacity eviction, a prefix invalidation or an insert over it;
\* a sweep removes exactly the entries whose expiry is at or before the
\* current time, and the removal step of a get removes the entry of its
\* key exactly when that entry's expiry is at or before the current time.
C38_OnlyExpiredSwept ==
    [][/\ \A k \in Unexpired(entries, now) :
            (k \notin DOMAIN entries' \/ entries'[k] # entries[k]) =>
              \E p \in DOMAIN procs :
                 \/ Evicts(p)
                 \/ Retains(p)
                 \/ Inserts(p) /\ k = ConcKey
       /\ \A p \in DOMAIN procs :
            /\ Sweeps(p) =>
                 /\ DOMAIN entries' = Unexpired(entries, now)
                 /\ \A k \in DOMAIN entries' : entries'[k] = entries[k]
            /\ Removes(p) =>
                 /\ DOMAIN entries' =
                      DOMAIN entries \ ({ConcKey} \ Unexpired(entries, now))
                 /\ \A k \in DOMAIN entries' : entries'[k] = entries[k]]_vars

\* The set of a read the count 1000 and swept: the expired entry that b
\* had stored is gone, the unexpired entry of the other key is there.
C38_Witness ==
    /\ procs # EmptyMap
    /\ procs["a"].pc = "len1"
    /\ procs["b"].pc = "done"
    /\ procs["b"].inserted # None
    /\ procs["b"].ttl = 0
    /\ procs["g"].pc = "start"
    /\ procs["i"].pc = "start"
    /\ op_count = CLEANUP_INTERVAL + 1
    /\ DOMAIN entries = {OtherKey}
    /\ entries[OtherKey].expires_at > now
    /\ applied = "removed"

----------------------------------------------------------------------------
(* Claims about hits over time, checked under SpecSeq *)

\* C39: a GET answered from the cache makes the one backend call get, so
\* no set, and leaves every entry as it was, the expiry and the creation
\* time of its own entry included; and a GET at or after the expiry of the
\* entry of its key is not answered from it, whatever hits came before:
\* the handler runs.  Every entry lives for the seconds of the marker it
\* was stored with.
C39_HitDoesNotRefresh ==
    [][IsRequest /\ mw'.method = "GET" =>
         /\ HeldFor(mw'.key) # None =>
              /\ mw'.calls = <<"get">>
              /\ Values(mw'.resp.headers, CACHE_STATUS_HEADER) = {HIT}
              /\ entries' = entries
         /\ (mw'.key \in DOMAIN entries /\ now >= entries[mw'.key].expires_at) =>
              /\ mw'.hresp # None
              /\ mw'.resp.body = mw'.hresp.val.body
              /\ Values(mw'.resp.headers, CACHE_STATUS_HEADER) # {HIT}
         /\ \A k \in DOMAIN entries' :
              \E h \in HandlerResponses :
                 MarkerSeconds(h) =
                   Some(entries'[k].expires_at - entries'[k].created_at)]_vars

\* Three GETs of one key: stored at 0 for two seconds, a hit before the
\* expiry, and at 2 the handler ran again and its response was stored anew.
C39_Witness ==
    /\ mw.n = 3
    /\ mw.method = "GET"
    /\ mw.at = 2
    /\ now = 2
    /\ mw.hresp # None
    /\ handler_calls = 2
    /\ max_entries = 2
    /\ DOMAIN entries = {mw.key}
    /\ entries[mw.key].created_at = 2
    /\ entries[mw.key].expires_at = 4
    /\ mw.resp.body = 2
    /\ Values(mw.resp.headers, CACHE_STATUS_HEADER) = {MISS}

----------------------------------------------------------------------------
(* The sibling specification: requests to a resource /u, to a path below   *)
(* it and to the path /us, which has /u as a string prefix without lying   *)
(* below it.                                                               *)

SiblingMethods == {"GET", "DELETE"}

SiblingTargets ==
    {[path |-> <<"/", "u">>, query |-> <<>>],
     [path |-> <<"/", "u", "/", "1">>, query |-> <<>>],
     [path |-> <<"/", "u", "s">>, query |-> <<>>]}

SiblingResponses ==
    {h \in HandlerResponses : h.status = 200}

RequestSibling ==
    /\ mw.n < MaxRequests + 1
    /\ Serve(SiblingMethods, SiblingTargets, SiblingResponses)

NextSibling == RequestSibling \/ TickMw

SpecSibling == InitMw /\ [][NextSibling]_vars

\* The key is that of a request to the base path b or to a path below it.
KeyWithin(key, b) ==
    \/ key = GET_ \o b
    \/ HasPrefix(key, GET_ \o b \o <<"/">>)
    \/ HasPrefix(key, GET_ \o b \o <<"?">>)

\* C36: a mutation answered 2xx removes only entries of the base path
\* derived from its path and of paths below it; the entry of a path that
\* has the base path as a mere string prefix is still present afterwards.
C36_InvalidationConfined ==
    [][IsRequest /\ is_mutation(mw'.method) /\ is_success(mw'.resp.status) =>
         \A k \in DOMAIN entries \ DOMAIN entries' :
            \E b \in {t.path : t \in SiblingTargets} :
               /\ build_invalidation_prefix(mw'.path) = GET_ \o b
               /\ KeyWithin(k, b)]_vars

----------------------------------------------------------------------------
(* The capacity specification: set calls on distinct keys of one           *)
(* InMemoryCache, each running once, interleaved at the same steps as in   *)
(* the concurrent specification: the count, the sweep, the tests of len(), *)
(* the scan for the oldest entry, its removal and the insert.              *)

\* The key of each call.
CapKey(p) == GET_ \o <<"/", p>>

CapProcs ==
    [p \in Pids |->
       [op |-> "set",
        key |-> CapKey(p),
        pc |-> "start",
        response |-> CHOOSE r \in Responses : r.status = 200,
        ttl |-> IF p = "b" THEN 0 ELSE 2,
        result |-> None,
        oldest |-> None,
        inserted |-> None,
        seen |-> None,
        found |-> None]]

InitCap ==
    /\ entries = EmptyMap
    /\ op_count \in {1, CLEANUP_INTERVAL - 1}
    /\ max_entries \in 1..MaxCap
    /\ now = 0
    /\ last = NoOp
    /\ watch = None
    /\ order = <<>>
    /\ mw = IdleMw
    /\ handler_calls = 0
    /\ kpath = <<>>
    /\ kquery = <<>>
    /\ kkey = None
    /\ RouterIdle
    /\ AsyncIdle
    /\ SweepIdle
    /\ PgIdle
    /\ TwinIdle
    /\ procs = CapProcs
    /\ applied = "none"

\* set: entries.insert(key, CacheEntry { .. }) for the call's own key
InsertOwn ==
    \E p \in Pids :
       /\ procs[p].pc = "insert"
       /\ LET entry == CacheEntry(procs[p].response, now, procs[p].ttl) IN
          /\ entries' = MapInsert(entries, procs[p].key, entry)
          /\ procs' = [procs EXCEPT ![p].inserted = Some(entry), ![p].pc = "done"]
       /\ UNCHANGED <<applied, op_count, now, ConcRest>>

NextCap ==
    \/ FetchAdd \/ Sweep \/ Len1 \/ Cleanup \/ Len2 \/ Scan \/ Evict
    \/ InsertOwn \/ TickConc

SpecCap == InitCap /\ [][NextCap]_vars

\* C34: with max_entries N >= 1, under every interleaving of set calls on
\* distinct keys, the store never holds more than N entries.
C34_CapacityUnderConcurrency ==
    max_entries >= 1 => MapLen(entries) <= max_entries

----------------------------------------------------------------------------
(* The race specification: CacheMiddleware::handle as concurrent futures   *)
(* over one InMemoryCache: two GETs of one resource and a mutation of it.  *)
(* A future advances at its calls of the backend and at the start and the  *)
(* end of the handler it awaits; the futures run on several threads, so    *)
(* their steps interleave freely.  The body of a handler's response names  *)
(* the request whose handler run produced it.                              *)

RaceRids == {"g1", "g2", "m"}

RacePath == <<"/", "u", "/", "1">>

RaceMethods(r) == IF r = "m" THEN {"DELETE", "POST"} ELSE {"GET"}

\* What the GET handler answers: 200 with a marker of two seconds.
RaceResponse(r) ==
    [status |-> 200,
     headers |-> <<<<"content-type", <<"j">>>>, <<CACHE_TTL_HEADER, <<"2">>>>>>,
     body |-> r]

RaceStatuses == {200, 404}

Waiting ==
    [pc |-> "idle", method |-> "", key |-> <<>>, hresp |-> None, resp |-> None,
     early |-> FALSE, late |-> FALSE]

InitRace ==
    /\ RouterIdle
    /\ ProcsIdle
    /\ SweepIdle
    /\ PgIdle
    /\ TwinIdle
    /\ store = EmptyMap
    /\ futs = [r \in RaceRids |-> Waiting]
    /\ entries = EmptyMap
    /\ op_count = 0
    /\ max_entries = MaxCap
    /\ now = 0
    /\ last = NoOp
    /\ watch = None
    /\ order = <<>>
    /\ mw = IdleMw
    /\ handler_calls = 0
    /\ kpath = <<>>
    /\ kquery = <<>>
    /\ kkey = None

RaceRest == <<max_entries, store, gvars, mvars, kvars, rvars, cvars, svars, pg, twin>>

\* The mutation has returned its response.
Mutated == futs["m"].pc = "done"

\* The handler of the mutation has not finished yet.
Unfinished == futs["m"].pc \in {"idle", "next", "running"}

\* handle is called: the method, the path and, for a GET, the cache key.
RaceArrive(r) ==
    /\ futs[r].pc = "idle"
    /\ \E method \in RaceMethods(r) :
         futs' = [futs EXCEPT ![r].pc = IF is_get(method) THEN "get" ELSE "next",
                              ![r].method = method,
                              ![r].key = IF is_get(method)
                                         THEN build_cache_key(RacePath, <<>>)
                                         ELSE <<>>,
                              ![r].late = Mutated]
    /\ UNCHANGED <<entries, op_count, now, RaceRest>>

\* self.backend.get(&cache_key).await: a hit returns the cached response.
Lookup(r) ==
    /\ futs[r].pc = "get"
    /\ LET g == backend_get(entries, op_count, futs[r].key, now, now, now) IN
       /\ entries' = g.entries
       /\ op_count' = g.op_count
       /\ futs' = IF g.result # None
                  THEN [futs EXCEPT ![r].pc = "done",
                                    ![r].resp =
                                       Some(build_response_from_cache(g.result.val, HIT))]
                  ELSE [futs EXCEPT ![r].pc = "next"]
    /\ UNCHANGED <<now, RaceRest>>

\* next.run(req): the handler starts, and reads the resource as it is.
HandlerStarts(r) ==
    /\ futs[r].pc = "next"
    /\ futs' = [futs EXCEPT ![r].pc = "running", ![r].early = Unfinished]
    /\ UNCHANGED <<entries, op_count, now, RaceRest>>

\* next.run(req).await returns the handler's response.
HandlerEnds(r) ==
    /\ futs[r].pc = "running"
    /\ IF is_get(futs[r].method)
       THEN futs' = [futs EXCEPT ![r].pc = "set",
                                 ![r].hresp = Some(RaceResponse(r))]
       ELSE \E status \in RaceStatuses :
              LET response == [status |-> status, headers |-> <<>>, body |-> r] IN
              futs' = [futs EXCEPT
                         ![r].pc = IF is_mutation(futs[r].method) /\ is_success(status)
                                   THEN "invalidate" ELSE "done",
                         ![r].hresp = Some(response),
                         ![r].resp = Some(response)]
    /\ UNCHANGED <<entries, op_count, now, RaceRest>>

\* The miss path after the handler: the marker is read, the response is
\* stored with backend.set and returned with x-cache: MISS.
Store(r) ==
    /\ futs[r].pc = "set"
    /\ LET response == futs[r].hresp.val
           ttl == extract_ttl_header(response.headers)
       IN IF ttl = None
          THEN /\ futs' = [futs EXCEPT ![r].pc = "done", ![r].resp = Some(response)]
               /\ UNCHANGED <<entries, op_count>>
          ELSE \E s \in backend_set(entries, op_count, max_entries, futs[r].key,
                                    cached_response(response), ttl.val,
                                    now, now, now) :
                 /\ entries' = s.entries
                 /\ op_count' = s.op_count
                 /\ futs' = [futs EXCEPT ![r].pc = "done",
                                         ![r].resp = Some(miss_response(response))]
    /\ UNCHANGED <<now, RaceRest>>

\* self.backend.invalidate_prefix(&prefix).await after a 2xx mutation.
Invalidate(r) ==
    /\ futs[r].pc = "invalidate"
    /\ entries' = invalidate_prefix(entries, build_invalidation_prefix(RacePath))
    /\ futs' = [futs EXCEPT ![r].pc = "done"]
    /\ UNCHANGED <<op_count, now, RaceRest>>

TickRace ==
    /\ now < MaxTime
    /\ now' = now + 1
    /\ UNCHANGED <<entries, op_count, futs, RaceRest>>

NextRace ==
    \/ \E r \in RaceRids :
          \/ RaceArrive(r) \/ Lookup(r) \/ HandlerStarts(r) \/ HandlerEnds(r)
          \/ Store(r) \/ Invalidate(r)
    \/ TickRace

SpecRace == InitRace /\ [][NextRace]_vars

----------------------------------------------------------------------------
(* Claims about a GET racing a mutation, checked under SpecRace *)

\* The mutation was answered 2xx and has invalidated.
MutatedOk ==
    /\ Mutated
    /\ is_mutation(futs["m"].method)
    /\ is_success(futs["m"].resp.val.status)

\* C33: when a GET whose handler started before the handler of a 2xx
\* mutation on its resource finished has completed, and the mutation too,
\* the backend holds no entry of the GET's key produced by that handler
\* run, and no GET that arrived after the mutation's response is answered
\* with the response of that run.
C33_NoStaleAfterMutation ==
    \A g \in RaceRids \ {"m"} :
       ( /\ MutatedOk
         /\ futs[g].pc = "done"
         /\ futs[g].early
         /\ StartsWith(futs[g].key, build_invalidation_prefix(RacePath)) ) =>
         /\ ~ ( /\ futs[g].key \in DOMAIN entries
                /\ entries[futs[g].key].response.body = g )
         /\ \A h \in RaceRids \ {"m", g} :
              futs[h].late /\ futs[h].resp # None => futs[h].resp.val.body # g

----------------------------------------------------------------------------
(* The age specification: two InMemoryCaches of one capacity given the     *)
(* same set and invalidate_prefix calls at the same times; the first one   *)
(* is also given get calls, on any key at any point, the second one none.  *)
(* entries and op_count are the first cache, twin is the second.           *)

MaxGets == 2

\* The counts the caches start at: 0, or two calls before the first
\* periodic sweep.
AgeStarts == {0, CLEANUP_INTERVAL - 2}

InitAge ==
    /\ RouterIdle
    /\ ProcsIdle
    /\ AsyncIdle
    /\ SweepIdle
    /\ PgIdle
    /\ entries = EmptyMap
    /\ op_count \in AgeStarts
    /\ twin = [entries |-> EmptyMap, op_count |-> op_count]
    /\ max_entries \in 1..MaxCap
    /\ now = 0
    /\ last = [hit |-> None, evicted |-> {}]
    /\ watch = None
    /\ order = <<>>
    /\ mw = IdleMw
    /\ handler_calls = 0
    /\ kpath = <<>>
    /\ kquery = <<>>
    /\ kkey = None

\* What set is called with: one response, for two seconds or for none.
AgeInputs == {x \in SetInputs : x.response.status = 404}

AgeRest == <<max_entries, watch, order, mvars, kvars, rvars, cvars, avars, svars, pg>>

\* The sets made so far, and the gets.
SetsDone ==
    IF twin.op_count >= CLEANUP_INTERVAL - 2
    THEN twin.op_count - (CLEANUP_INTERVAL - 2) ELSE twin.op_count
GetsDone == op_count - twin.op_count

\* The unexpired keys of m at t that the map after a call does not hold:
\* the keys the call evicted.
Evicted(m, after, t) == {k \in DOMAIN m : m[k].expires_at > t} \ DOMAIN after

\* get(key) on the first cache.  last keeps the key that a get hit last.
GetFirst ==
    /\ GetsDone < MaxGets
    /\ \E key \in Keys :
         LET g == backend_get(entries, op_count, key, now, now, now) IN
         /\ entries' = g.entries
         /\ op_count' = g.op_count
         /\ last' = [hit |-> IF g.result # None THEN Some(key) ELSE last.hit,
                     evicted |-> {}]
    /\ UNCHANGED <<twin, now, AgeRest>>

\* set(key, response, ttl) on both caches.  Where several entries are the
\* oldest, both caches evict the same one when they can.  last keeps the
\* keys the call evicted from the first cache.
SetBoth ==
    /\ SetsDone < MaxOps
    /\ \E key \in Keys, x \in AgeInputs :
         LET firsts == backend_set(entries, op_count, max_entries, key,
                                   x.response, x.ttl, now, now, now)
             seconds == backend_set(twin.entries, twin.op_count, max_entries, key,
                                    x.response, x.ttl, now, now, now)
         IN \E s1 \in firsts, s2 \in seconds :
              /\ \/ Evicted(entries, s1.entries, now)
                      = Evicted(twin.entries, s2.entries, now)
                 \/ \A s \in seconds :
                      Evicted(entries, s1.entries, now)
                        # Evicted(twin.entries, s.entries, now)
              /\ entries' = s1.entries
              /\ op_count' = s1.op_count
              /\ twin' = [entries |-> s2.entries, op_count |-> s2.op_count]
              /\ last' = [hit |-> last.hit,
                          evicted |-> Evicted(entries, s1.entries, now)]
    /\ UNCHANGED <<now, AgeRest>>

\* invalidate_prefix(prefix) on both caches.
InvalidateBoth ==
    /\ \E prefix \in {ConcPrefix} :
         /\ entries' = invalidate_prefix(entries, prefix)
         /\ twin' = [twin EXCEPT !.entries = invalidate_prefix(twin.entries, prefix)]
         /\ last' = [hit |-> last.hit, evicted |-> {}]
    /\ UNCHANGED <<op_count, now, AgeRest>>

TickAge ==
    /\ now < MaxTime
    /\ now' = now + 1
    /\ UNCHANGED <<entries, op_count, twin, last, AgeRest>>

NextAge == GetFirst \/ SetBoth \/ InvalidateBoth \/ TickAge

SpecAge == InitAge /\ [][NextAge]_vars

----------------------------------------------------------------------------
(* Claims about the age of entries, checked under SpecAge *)

IsAgeGet == op_count' = op_count + 1 /\ twin' = twin
IsAgeSet == twin'.op_count = twin.op_count + 1

\* The sets of keys a set of the key on the cache (m, count) may evict;
\* the response and the TTL set is called with have no part in it.
MayEvict(m, count, key) ==
    LET x == CHOOSE i \in AgeInputs : TRUE IN
    {Evicted(m, s.entries, now) :
       s \in backend_set(m, count, max_entries, key, x.response, x.ttl,
                         now, now, now)}

\* C31: a get changes no entry that it leaves in the store, so no creation
\* time; in every state a set of any key would evict the same keys from the
\* cache that was given gets as from the one given the same other calls
\* and no get, each set does, and the two hold the same unexpired entries
\* throughout; an evicted entry has the minimal creation time among the
\* entries unexpired at the eviction.
C31_EvictionByInsertionAge ==
    /\ [](/\ cleanup_expired(entries, now) = cleanup_expired(twin.entries, now)
          /\ \A key \in Keys :
               MayEvict(entries, op_count, key) =
                 MayEvict(twin.entries, twin.op_count, key))
    /\ [][/\ IsAgeGet =>
              \A k \in DOMAIN entries' :
                 k \in DOMAIN entries /\ entries'[k] = entries[k]
         /\ IsAgeSet =>
              /\ Evicted(entries, entries', now) =
                   Evicted(twin.entries, twin'.entries, now)
              /\ \A k \in Evicted(entries, entries', now) :
                   \A j \in DOMAIN entries :
                      entries[j].expires_at > now =>
                        entries[k].created_at <= entries[j].created_at]_vars

\* A cache of capacity 2: set(/u/1) at 0, set(/u) at 1, two gets that hit
\* /u/1, then set(/p): the entry evicted is that of /u/1, the oldest, though
\* it is the one that was read; the cache given no get holds the same.
C31_Witness ==
    /\ last.hit = Some(GET_ \o <<"/", "u", "/", "1">>)
    /\ last.evicted = {GET_ \o <<"/", "u", "/", "1">>}
    /\ max_entries = 2
    /\ GetsDone = 2
    /\ SetsDone = 3
    /\ now = 1
    /\ DOMAIN entries = {GET_ \o <<"/", "u">>, GET_ \o <<"/", "p">>}
    /\ entries[GET_ \o <<"/", "u">>].created_at = 1
    /\ twin.entries = entries

====
